---- MODULE Spec2Model ----
\* Market analysis and signal lifecycle of the trading-signal service:
\* ScalpingStrategy (scoring, protective levels, cooldown gate),
\* SignalGenerator (analyze_symbol, monitor_active_signals, _close_signal)
\* and the cycle loop of TradingSignalService.run.
\*
\* Units.  Prices are integers counting 0.002 (a fifth of a cent), so a price
\* rounded to 2 decimals is a multiple of 5 and rounding never meets a tie.
\* Scores and confidence count 0.001.  Times are whole seconds.  pnl_percent
\* counts 0.01 %, duration_minutes counts 0.1 min, risk_reward counts 0.01.
\* The code computes pnl_percent, duration_minutes and the VWAP thresholds in
\* binary floats: where the exact value lies on a rounding or comparison
\* boundary the model evaluates the float expression, operation by operation.
EXTENDS Integers, Sequences, FiniteSets, TLC

\* ---------------------------------------------------------------------
\* Program constants (config/trading_params.py)
\* ---------------------------------------------------------------------
SYMBOLS == <<"BTCUSDT", "ETHUSDT", "SOLUSDT", "BNBUSDT">>

ANALYSIS_INTERVAL == 10

RSI_OVERBOUGHT == 70

RSI_OVERSOLD == 30

STOP_LOSS_MULTIPLIER == 2

TAKE_PROFIT_MULTIPLIER == 3

\* 0.50, in thousandths
MIN_CONFIDENCE == 500

\* 1.5, in tenths
MIN_VOLUME_RATIO == 15

\* 0.02, in thousandths
MIN_VOLATILITY == 20

SIGNAL_COOLDOWN_MINUTES == 5

MAX_SIGNAL_LIFETIME_HOURS == 24

MAX_ACTIVE_SIGNALS == 10

MAX_SIGNALS_PER_SYMBOL == 2

\* WEIGHTS, in thousandths
W_ema_trend == 250

W_rsi_momentum == 200

W_bollinger == 150

W_vwap == 150

W_volume == 150

W_price_action == 100

\* the 0.05 bonus of a fresh golden / death cross, in thousandths
CrossBonus == 50

WEIGHTS ==
  [ema_trend |-> W_ema_trend, rsi_momentum |-> W_rsi_momentum,
   bollinger |-> W_bollinger, vwap |-> W_vwap, volume |-> W_volume,
   price_action |-> W_price_action]

\* ---------------------------------------------------------------------
\* Bounds of the model
\* ---------------------------------------------------------------------
\* how many of the configured SYMBOLS the cycle loop analyses
NumSymbols == 2

\* how many times the cycle loop sleeps in the runs the model follows
MaxCycles == 1

\* how many signals the market lets the service create under the lifecycle
\* specification: once that many exist, every later candle window is quiet
CycleSignals == 1

\* the same under the cooldown specification
PairSignals == 2

\* how many times the clock advances under the gate specification
MaxTicks == 3

\* how many times the cycle loop sleeps under the long-run specification
LiveCycles == 3

\* how many times the process stops and is started again under the restart
\* specification
MaxCrashes == 1

\* how many times the cycle loop sleeps under the limits specification
LimitCycles == 2

\* how many signals the market lets the service create under the limits
\* specification
LimitSignals == 3

\* ---------------------------------------------------------------------
\* Arithmetic helpers
\* ---------------------------------------------------------------------
Abs(x) == IF x < 0 THEN -x ELSE x

Max(a, b) == IF a >= b THEN a ELSE b

\* ---------------------------------------------------------------------
\* Python floats (IEEE-754 doubles).  A natural number of any size is the
\* sequence of its digits in base Radix, lowest first, without a leading
\* zero; a double is its sign, its significand (a natural number of at most
\* 54 bits) and its exponent: (-1)^neg * m * 2^e.  Each operation computes
\* the exact result and rounds it to 53 significant bits, ties to even, as
\* the hardware does; the magnitudes of prices, percentages and durations
\* are far from overflow and from the subnormal range.
\* ---------------------------------------------------------------------
DigitBits == 15

Radix == 2^DigitBits

RECURSIVE Digits(_)
Digits(n) == IF n = 0 THEN <<>> ELSE <<n % Radix>> \o Digits(n \div Radix)

RECURSIVE Value(_)
Value(a) == IF a = <<>> THEN 0 ELSE a[1] + Radix * Value(Tail(a))

RECURSIVE Trim(_)
Trim(a) ==
  IF a = <<>> \/ a[Len(a)] # 0 THEN a ELSE Trim(SubSeq(a, 1, Len(a) - 1))

Digit(a, i) == IF i >= 1 /\ i <= Len(a) THEN a[i] ELSE 0

\* -1, 0 or 1 as a is below, equal to or above b
RECURSIVE CmpFrom(_, _, _)
CmpFrom(a, b, i) ==
  IF i = 0 THEN 0
  ELSE IF Digit(a, i) > Digit(b, i) THEN 1
  ELSE IF Digit(a, i) < Digit(b, i) THEN -1
  ELSE CmpFrom(a, b, i - 1)

Cmp(a, b) == CmpFrom(a, b, Max(Len(a), Len(b)))

\* a + b when sign = 1 and a - b, for a >= b, when sign = -1
RECURSIVE SumFrom(_, _, _, _, _)
SumFrom(a, b, sign, i, carry) ==
  IF i > Len(a) /\ i > Len(b) THEN Digits(carry)
  ELSE <<(Digit(a, i) + sign * Digit(b, i) + carry + Radix) % Radix>>
       \o SumFrom(a, b, sign, i + 1,
                  (Digit(a, i) + sign * Digit(b, i) + carry + Radix) \div Radix - 1)

Sum(a, b, sign) == Trim(SumFrom(a, b, sign, 1, 0))

\* a * d + c for one digit d and a small number c
RECURSIVE ScaleFrom(_, _, _, _)
ScaleFrom(a, d, i, carry) ==
  IF i > Len(a) THEN Digits(carry)
  ELSE <<(a[i] * d + carry) % Radix>>
       \o ScaleFrom(a, d, i + 1, (a[i] * d + carry) \div Radix)

Scale(a, d, c) == Trim(ScaleFrom(a, d, 1, c))

\* a * Radix^w
ShiftDigits(a, w) == IF a = <<>> THEN <<>> ELSE [i \in 1..w |-> 0] \o a

RECURSIVE Mul(_, _)
Mul(a, b) ==
  IF b = <<>> THEN <<>>
  ELSE Sum(Scale(a, b[1], 0), ShiftDigits(Mul(a, Tail(b)), 1), 1)

\* the integer part of a / d for one digit d # 0, from the highest digit down
RECURSIVE QuotFrom(_, _, _, _)
QuotFrom(a, d, i, rem) ==
  IF i = 0 THEN <<>>
  ELSE QuotFrom(a, d, i - 1, (rem * Radix + a[i]) % d)
       \o <<(rem * Radix + a[i]) \div d>>

\* a * 2^k and the integer part of a / 2^k
Shl(a, k) == ShiftDigits(Scale(a, 2^(k % DigitBits), 0), k \div DigitBits)

Shr(a, k) ==
  IF k \div DigitBits >= Len(a) THEN <<>>
  ELSE Trim(QuotFrom(SubSeq(a, k \div DigitBits + 1, Len(a)),
                     2^(k % DigitBits), Len(a) - k \div DigitBits, 0))

\* the binary digit of a at position i, the lowest being at position 1
Bit(a, i) ==
  (Digit(a, (i - 1) \div DigitBits + 1) \div 2^((i - 1) % DigitBits)) % 2

\* the number of binary digits of a
RECURSIVE Width(_)
Width(n) == IF n = 0 THEN 0 ELSE 1 + Width(n \div 2)

BitLen(a) ==
  IF a = <<>> THEN 0 ELSE DigitBits * (Len(a) - 1) + Width(a[Len(a)])

\* the digit x with b * x <= r < b * (x + 1), for r < b * Radix: the binary
\* digits of x are settled from the highest down
RECURSIVE DigitFrom(_, _, _, _)
DigitFrom(r, b, x, step) ==
  IF step = 0 THEN x
  ELSE IF Cmp(Scale(b, x + step, 0), r) <= 0
  THEN DigitFrom(r, b, x + step, step \div 2)
  ELSE DigitFrom(r, b, x, step \div 2)

\* one step of the long division by b # 0: the next digit of the dividend
\* has come in below the remainder so far, which gives r, and x is the next
\* digit of the quotient
DivStep(b, q, r, x) == [q |-> <<x>> \o q, r |-> Sum(r, Scale(b, x, 0), -1)]

\* the steps from the highest digit of a down to the lowest (each state is
\* computed before the next step starts)
RECURSIVE DivFrom(_, _, _, _)
DivFrom(a, b, i, st) ==
  IF i = 0 THEN [q |-> Trim(st.q), r |-> st.r]
  ELSE CHOOSE res \in
         {DivFrom(a, b, i - 1, DivStep(b, st.q, r, x)) :
            r \in {Trim(<<a[i]>> \o st.r)},
            x \in {DigitFrom(Trim(<<a[i]>> \o st.r), b, 0, Radix \div 2)}} : TRUE

\* quotient q and remainder r of a by b # 0
DivMod(a, b) == DivFrom(a, b, Len(a), [q |-> <<>>, r |-> <<>>])

\* the exact value (num / den) * 2^e of one operation on doubles, or of a
\* decimal literal
Exact(neg, num, den, e) == [neg |-> neg, num |-> num, den |-> den, e |-> e]

\* x - y, the significands brought to the exponent e of the lower one
Difference(x, y, e) ==
  IF x.neg # y.neg
  THEN Exact(x.neg, Sum(Shl(x.m, x.e - e), Shl(y.m, y.e - e), 1), <<1>>, e)
  ELSE IF Cmp(Shl(x.m, x.e - e), Shl(y.m, y.e - e)) >= 0
  THEN Exact(x.neg, Sum(Shl(x.m, x.e - e), Shl(y.m, y.e - e), -1), <<1>>, e)
  ELSE Exact(~x.neg, Sum(Shl(y.m, y.e - e), Shl(x.m, x.e - e), -1), <<1>>, e)

\* the result of "add", "sub", "mul" or "div" on the doubles x and y, before
\* rounding; x + y is x - (-y)
Operation(op, x, y) ==
  IF op = "mul" THEN Exact(x.neg # y.neg, Mul(x.m, y.m), <<1>>, x.e + y.e)
  ELSE IF op = "div" THEN Exact(x.neg # y.neg, x.m, y.m, x.e - y.e)
  ELSE Difference(x, IF op = "add" THEN [y EXCEPT !.neg = ~y.neg] ELSE y,
                  IF x.e <= y.e THEN x.e ELSE y.e)

\* the 53 highest binary digits of the quotient q (of 55 or 56 digits, its
\* lowest standing for 2^e), one more when what is dropped is above half of
\* the last place kept, or is half of it and the last digit kept is odd
Kept(neg, q, rest, drop, e) ==
  [neg |-> neg,
   m |-> Scale(Shr(q, drop), 1,
               IF Bit(q, drop) = 1
                  /\ (rest \/ Bit(q, drop + 1) = 1
                           \/ \E i \in 1..(drop - 1) : Bit(q, i) = 1)
               THEN 1 ELSE 0),
   e |-> e + drop]

Quotient(neg, qr, e) == Kept(neg, qr.q, qr.r # <<>>, BitLen(qr.q) - 53, e)

\* the double nearest to the exact value v, ties to even
Scaled(v, k) ==
  Quotient(v.neg, DivMod(IF k >= 0 THEN Shl(v.num, k) ELSE v.num,
                         IF k >= 0 THEN v.den ELSE Shl(v.den, -k)), v.e - k)

Nearest(v) ==
  IF v.num = <<>> THEN [neg |-> FALSE, m |-> <<>>, e |-> 0]
  ELSE Scaled(v, 55 - (BitLen(v.num) - BitLen(v.den)))

\* the double a float expression evaluates to: <<"float", n, d>> is the
\* float of the decimal n / d (integers, d > 0), <<op, x, y>> applies the
\* operation op to the values of the expressions x and y
RECURSIVE FEval(_)
FEval(x) ==
  Nearest(IF x[1] = "float"
          THEN Exact(x[2] < 0, Digits(Abs(x[2])), Digits(x[3]), 0)
          ELSE Operation(x[1], FEval(x[2]), FEval(x[3])))

\* x > y for doubles x, y >= 0, e being the lower of their exponents
Above(x, y, e) == Cmp(Shl(x.m, x.e - e), Shl(y.m, y.e - e)) > 0

FGreater(x, y) == Above(x, y, IF x.e <= y.e THEN x.e ELSE y.e)

\* round(x, ndigits) of the double x counted in units of 1 / scale, scale =
\* 10^ndigits: the integer nearest to the exact value of x * scale, ties to
\* even; n is x.m * scale
Units(neg, n, e) ==
  (IF neg THEN -1 ELSE 1)
    * Value(IF e >= 0 THEN Shl(n, e)
            ELSE Scale(Shr(n, -e), 1,
                       IF Bit(n, -e) = 1
                          /\ (Bit(n, 1 - e) = 1 \/ \E i \in 1..(-e - 1) : Bit(n, i) = 1)
                       THEN 1 ELSE 0))

FRound(x, scale) == Units(x.neg, Scale(x.m, scale, 0), x.e)

\* the float of a price counted in units of 0.002
Price(p) == <<"float", p, 500>>

\* round(x, ndigits) counted in units of 1 / scale, for the float expression
\* x by which the code computes the exact value n / (d * scale), d > 0.  Off a
\* tie the result is the integer nearest to n / d: the nearest tie is at least
\* 1 / (2 * d) away, out of reach of the rounding errors of x (units in its
\* 16th digit).  At a tie the side on which the double fell decides.
Round(n, d, x, scale) ==
  IF 2 * (n % d) < d THEN n \div d
  ELSE IF 2 * (n % d) > d THEN n \div d + 1
  ELSE FRound(FEval(x), scale)

\* x > y for the float expressions x and y by which the code computes the
\* exact values n and m (in a common unit): the doubles decide when the exact
\* values are equal, and else lie on the same sides as the exact values
Greater(n, m, x, y) == IF n = m THEN FGreater(FEval(x), FEval(y)) ELSE n > m

\* round(x, 2) of a price: the nearest multiple of 5 units (0.01); a multiple of
\* 0.002 is never halfway between two of them
Round2(x) == 5 * Round(x, 5, Price(x), 100)

\* an absent value (Python None) and a present one
None == <<>>

Some(v) == <<v>>

\* ---------------------------------------------------------------------
\* ScalpingStrategy._generate_signal  (strategies/scalping_strategy.py)
\* A snapshot s carries the fields of the latest row and, prefixed prev_,
\* the fields of the previous row that scoring reads.
\* ---------------------------------------------------------------------
Score(b, s) == [buy |-> b, sell |-> s]

\* 1. EMA trend with the crossing bonus
EmaStep(sc, s) ==
  IF s.ema_fast > s.ema_slow
  THEN Score(sc.buy + WEIGHTS.ema_trend
               + (IF s.prev_ema_fast <= s.prev_ema_slow THEN CrossBonus ELSE 0),
             sc.sell)
  ELSE IF s.ema_fast < s.ema_slow
  THEN Score(sc.buy,
             sc.sell + WEIGHTS.ema_trend
               + (IF s.prev_ema_fast >= s.prev_ema_slow THEN CrossBonus ELSE 0))
  ELSE sc

\* 2. RSI momentum
RsiStep(sc, s) ==
  IF s.rsi < RSI_OVERSOLD THEN Score(sc.buy + WEIGHTS.rsi_momentum, sc.sell)
  ELSE IF s.rsi > RSI_OVERBOUGHT THEN Score(sc.buy, sc.sell + WEIGHTS.rsi_momentum)
  ELSE IF 40 < s.rsi /\ s.rsi < 60 THEN sc
  ELSE IF s.rsi < 50 THEN Score(sc.buy + WEIGHTS.rsi_momentum \div 2, sc.sell)
  ELSE Score(sc.buy, sc.sell + WEIGHTS.rsi_momentum \div 2)

\* 3. Bollinger bands, read only when the width exceeds MIN_VOLATILITY
BollingerStep(sc, s) ==
  IF s.bb_width > MIN_VOLATILITY
  THEN IF s.close <= s.bb_lower THEN Score(sc.buy + WEIGHTS.bollinger, sc.sell)
       ELSE IF s.close >= s.bb_upper THEN Score(sc.buy, sc.sell + WEIGHTS.bollinger)
       ELSE sc
  ELSE sc

\* 4. VWAP: fresh cross, else close > vwap * 1.001 or close < vwap * 0.999,
\* compared as floats.  A NaN vwap (no volume in the whole window) makes each
\* of the four comparisons false.
VwapStep(sc, s) ==
  IF "vwap" \in s.nan THEN sc
  ELSE IF s.close > s.vwap /\ s.prev_close <= s.prev_vwap
  THEN Score(sc.buy + WEIGHTS.vwap, sc.sell)
  ELSE IF s.close < s.vwap /\ s.prev_close >= s.prev_vwap
  THEN Score(sc.buy, sc.sell + WEIGHTS.vwap)
  ELSE IF Greater(1000 * s.close, 1001 * s.vwap,
                  Price(s.close), <<"mul", Price(s.vwap), <<"float", 1001, 1000>>>>)
  THEN Score(sc.buy + WEIGHTS.vwap \div 2, sc.sell)
  ELSE IF Greater(999 * s.vwap, 1000 * s.close,
                  <<"mul", Price(s.vwap), <<"float", 999, 1000>>>>, Price(s.close))
  THEN Score(sc.buy, sc.sell + WEIGHTS.vwap \div 2)
  ELSE sc

\* volume confirmation that credits BUY when the sides are tied
VolumeStep_tie_buy(sc, s) ==
  IF s.volume_ratio > MIN_VOLUME_RATIO
  THEN IF sc.buy >= sc.sell THEN Score(sc.buy + WEIGHTS.volume, sc.sell)
       ELSE Score(sc.buy, sc.sell + WEIGHTS.volume)
  ELSE sc

\* 5. volume confirms the side that is ahead
VolumeStep(sc, s) ==
  IF s.volume_ratio > MIN_VOLUME_RATIO
  THEN IF sc.buy > sc.sell THEN Score(sc.buy + WEIGHTS.volume, sc.sell)
       ELSE IF sc.sell > sc.buy THEN Score(sc.buy, sc.sell + WEIGHTS.volume)
       ELSE sc
  ELSE sc

\* 6. price action, thresholds +-0.002 (price_change counts 0.0001)
PriceActionStep(sc, s) ==
  IF s.price_change > 20 THEN Score(sc.buy + WEIGHTS.price_action, sc.sell)
  ELSE IF s.price_change < -20 THEN Score(sc.buy, sc.sell + WEIGHTS.price_action)
  ELSE sc

\* the two accumulators after the six components
Scores(s) ==
  PriceActionStep(VolumeStep(VwapStep(BollingerStep(RsiStep(EmaStep(
      Score(0, 0), s), s), s), s), s), s)

\* the decision without the minimum-confidence test
Decide_no_minimum(sc) ==
  LET confidence == Max(sc.buy, sc.sell)
  IN  IF sc.buy > sc.sell THEN [type |-> "BUY", confidence |-> sc.buy]
      ELSE IF sc.sell > sc.buy THEN [type |-> "SELL", confidence |-> sc.sell]
      ELSE [type |-> "HOLD", confidence |-> confidence]

\* the decision with a tie above the minimum resolved as BUY
Decide_tie_buy(sc) ==
  LET confidence == Max(sc.buy, sc.sell)
  IN  IF confidence < MIN_CONFIDENCE THEN [type |-> "HOLD", confidence |-> confidence]
      ELSE IF sc.buy >= sc.sell THEN [type |-> "BUY", confidence |-> sc.buy]
      ELSE [type |-> "SELL", confidence |-> sc.sell]

\* the final decision on the accumulated scores
Decide(sc) ==
  LET confidence == Max(sc.buy, sc.sell)
  IN  IF confidence < MIN_CONFIDENCE THEN [type |-> "HOLD", confidence |-> confidence]
      ELSE IF sc.buy > sc.sell THEN [type |-> "BUY", confidence |-> sc.buy]
      ELSE IF sc.sell > sc.buy THEN [type |-> "SELL", confidence |-> sc.sell]
      ELSE [type |-> "HOLD", confidence |-> confidence]

_generate_signal(s) == Decide(Scores(s))

\* ---------------------------------------------------------------------
\* ScalpingStrategy._calculate_stops
\* ---------------------------------------------------------------------
_calculate_stops(s, signal_type) ==
  \* reward / risk is the ratio of the two multipliers whenever risk > 0
  LET entry_price     == s.close
      stop_distance   == s.atr * STOP_LOSS_MULTIPLIER
      profit_distance == s.atr * TAKE_PROFIT_MULTIPLIER
      stop_loss   == IF signal_type = "BUY" THEN entry_price - stop_distance
                                            ELSE entry_price + stop_distance
      take_profit == IF signal_type = "BUY" THEN entry_price + profit_distance
                                            ELSE entry_price - profit_distance
      risk   == Abs(entry_price - stop_loss)
      reward == Abs(take_profit - entry_price)
  IN  [entry_price |-> Round2(entry_price),
       stop_loss   |-> Round2(stop_loss),
       take_profit |-> Round2(take_profit),
       atr         |-> Round2(s.atr),
       risk_reward |-> IF risk > 0
                       THEN Round(100 * reward, risk,
                                  <<"div", Price(reward), Price(risk)>>, 100)
                       ELSE 0]

\* ---------------------------------------------------------------------
\* ScalpingStrategy.analyze.  The frame df carries, besides the fields scoring
\* reads, its number of candles, the indicator families whose computation
\* raised inside calculate_all (their columns are then absent) and the
\* indicators whose latest value is NaN.  analyze_symbol hands in a frame
\* without indicator columns, so validate_data_quality is false and
\* calculate_all runs; nothing validates the frame it returns.
\* ---------------------------------------------------------------------
\* the indicator families whose columns _generate_signal reads
ScoredFamilies == {"ema", "rsi", "bollinger", "vwap", "volume", "price_action"}

\* analyze with the size test one candle too low
analyze_min_49(df) ==
  IF df.candles < 49
  THEN [type |-> "HOLD", confidence |-> 0, stops |-> None, raised |-> FALSE]
  ELSE IF df.missing \cap ScoredFamilies # {}
  THEN [type |-> "HOLD", confidence |-> 0, stops |-> None, raised |-> TRUE]
  ELSE LET g == _generate_signal(df)
       IN  IF g.type = "HOLD"
           THEN [type |-> "HOLD", confidence |-> g.confidence, stops |-> None,
                 raised |-> FALSE]
           ELSE IF "atr" \in df.missing
           THEN [type |-> g.type, confidence |-> g.confidence, stops |-> None,
                 raised |-> TRUE]
           ELSE [type |-> g.type, confidence |-> g.confidence,
                 stops |-> Some(_calculate_stops(df, g.type)), raised |-> FALSE]

analyze(df) ==
  IF df.candles < 50
  THEN [type |-> "HOLD", confidence |-> 0, stops |-> None, raised |-> FALSE]
  ELSE IF df.missing \cap ScoredFamilies # {}
  THEN [type |-> "HOLD", confidence |-> 0, stops |-> None, raised |-> TRUE]
  ELSE LET g == _generate_signal(df)
       IN  IF g.type = "HOLD"
           THEN [type |-> "HOLD", confidence |-> g.confidence, stops |-> None,
                 raised |-> FALSE]
           ELSE IF "atr" \in df.missing
           THEN [type |-> g.type, confidence |-> g.confidence, stops |-> None,
                 raised |-> TRUE]
           ELSE [type |-> g.type, confidence |-> g.confidence,
                 stops |-> Some(_calculate_stops(df, g.type)), raised |-> FALSE]

\* ---------------------------------------------------------------------
\* SignalGenerator._create_signal at clock reading t.  Scores are multiples
\* of 0.025, so round(confidence, 3) returns them unchanged.
\* ---------------------------------------------------------------------
\* the signal with its identifier built from the symbol alone
_create_signal_symbol_id(symbol, signal_type, confidence, stops, t) ==
  [signal_id    |-> <<symbol, 0>>,
   symbol       |-> symbol,
   type         |-> signal_type,
   price        |-> stops.entry_price,
   confidence   |-> confidence,
   stop_loss    |-> stops.stop_loss,
   take_profit  |-> stops.take_profit,
   atr          |-> stops.atr,
   risk_reward  |-> stops.risk_reward,
   status       |-> "ACTIVE",
   created_at   |-> t,
   close_price  |-> None,
   close_time   |-> None,
   pnl_percent  |-> None,
   duration_minutes |-> None]

_create_signal(symbol, signal_type, confidence, stops, t) ==
  [signal_id    |-> <<symbol, t>>,
   symbol       |-> symbol,
   type         |-> signal_type,
   price        |-> stops.entry_price,
   confidence   |-> confidence,
   stop_loss    |-> stops.stop_loss,
   take_profit  |-> stops.take_profit,
   atr          |-> stops.atr,
   risk_reward  |-> stops.risk_reward,
   status       |-> "ACTIVE",
   created_at   |-> t,
   close_price  |-> None,
   close_time   |-> None,
   pnl_percent  |-> None,
   duration_minutes |-> None]

\* ---------------------------------------------------------------------
\* ScalpingStrategy.validate_signal: the cooldown gate.  ls is last_signals,
\* t the clock reading; returns the verdict and the map afterwards.
\* ---------------------------------------------------------------------
\* the gate with the cooldown compared by >= instead of >
validate_signal_ge(ls, symbol, signal_type, t) ==
  LET key == <<symbol, signal_type>>
  IN  IF key \notin DOMAIN ls
      THEN [ok |-> TRUE, last |-> (key :> t) @@ ls]
      ELSE IF t - ls[key] >= SIGNAL_COOLDOWN_MINUTES * 60
      THEN [ok |-> TRUE, last |-> (key :> t) @@ ls]
      ELSE [ok |-> FALSE, last |-> ls]

\* the gate with a rejected call restarting the cooldown
validate_signal_restamp(ls, symbol, signal_type, t) ==
  LET key == <<symbol, signal_type>>
  IN  IF key \notin DOMAIN ls
      THEN [ok |-> TRUE, last |-> (key :> t) @@ ls]
      ELSE [ok |-> t - ls[key] > SIGNAL_COOLDOWN_MINUTES * 60,
            last |-> (key :> t) @@ ls]

validate_signal(ls, symbol, signal_type, t) ==
  LET key == <<symbol, signal_type>>
  IN  IF key \notin DOMAIN ls
      THEN [ok |-> TRUE, last |-> (key :> t) @@ ls]
      ELSE IF t - ls[key] > SIGNAL_COOLDOWN_MINUTES * 60
      THEN [ok |-> TRUE, last |-> (key :> t) @@ ls]
      ELSE [ok |-> FALSE, last |-> ls]

\* ---------------------------------------------------------------------
\* SignalGenerator: closure rules
\* ---------------------------------------------------------------------
\* the closure rule with the take-profit test placed before the stop-loss test
_check_signal_status_tp_first(signal, current_price) ==
  IF signal.type = "BUY"
  THEN IF current_price >= signal.take_profit THEN "TAKE_PROFIT"
       ELSE IF current_price <= signal.stop_loss THEN "STOP_LOSS"
       ELSE "ACTIVE"
  ELSE IF current_price <= signal.take_profit THEN "TAKE_PROFIT"
       ELSE IF current_price >= signal.stop_loss THEN "STOP_LOSS"
       ELSE "ACTIVE"

\* the closure rule with the BUY comparisons applied to both directions
_check_signal_status_buy_only(signal, current_price) ==
  IF current_price <= signal.stop_loss THEN "STOP_LOSS"
  ELSE IF current_price >= signal.take_profit THEN "TAKE_PROFIT"
  ELSE "ACTIVE"

_check_signal_status(signal, current_price) ==
  IF signal.type = "BUY"
  THEN IF current_price <= signal.stop_loss THEN "STOP_LOSS"
       ELSE IF current_price >= signal.take_profit THEN "TAKE_PROFIT"
       ELSE "ACTIVE"
  ELSE IF current_price >= signal.stop_loss THEN "STOP_LOSS"
       ELSE IF current_price <= signal.take_profit THEN "TAKE_PROFIT"
       ELSE "ACTIVE"

\* the expiry test with the subtraction reversed (created - now)
_is_expired_reversed(signal, t) ==
  signal.created_at - t > MAX_SIGNAL_LIFETIME_HOURS * 3600

\* hours_active > MAX_SIGNAL_LIFETIME_HOURS, in seconds
_is_expired(signal, t) ==
  t - signal.created_at > MAX_SIGNAL_LIFETIME_HOURS * 3600

\* pnl_percent = ((close_price - entry_price) / entry_price) * 100 for BUY,
\* ((entry_price - close_price) / entry_price) * 100 for any other type;
\* round(pnl_percent, 2), counted in 0.01 %
PnlPercent(type, entry_price, close_price) ==
  Round(10000 * (IF type = "BUY" THEN close_price - entry_price
                                 ELSE entry_price - close_price),
        entry_price,
        <<"mul", <<"div", IF type = "BUY"
                          THEN <<"sub", Price(close_price), Price(entry_price)>>
                          ELSE <<"sub", Price(entry_price), Price(close_price)>>,
                   Price(entry_price)>>,
          <<"float", 100, 1>>>>,
        100)

\* duration_minutes = total_seconds() / 60; round(duration_minutes, 1), counted
\* in tenths of a minute
DurationMinutes(seconds) ==
  Round(10 * seconds, 60, <<"div", <<"float", seconds, 1>>, <<"float", 60, 1>>>>, 10)

\* the fields _close_signal writes into the signal before it touches the
\* performance log (lines 312-333); t is the clock reading
\* the closing fields with the BUY formula applied to both directions
ClosedRecord_buy_formula(signal, close_price, status, t) ==
  [signal EXCEPT !.close_price = Some(close_price),
                 !.close_time = Some(t),
                 !.status = status,
                 !.pnl_percent = Some(PnlPercent("BUY", signal.price, close_price)),
                 !.duration_minutes = Some(DurationMinutes(t - signal.created_at))]

ClosedRecord(signal, close_price, status, t) ==
  [signal EXCEPT !.close_price = Some(close_price),
                 !.close_time = Some(t),
                 !.status = status,
                 !.pnl_percent = Some(PnlPercent(signal.type, signal.price, close_price)),
                 !.duration_minutes = Some(DurationMinutes(t - signal.created_at))]

\* ---------------------------------------------------------------------
\* Dictionaries and lists of signals.  active_signals is a dict in
\* insertion order, modelled as a sequence of signals with distinct ids.
\* ---------------------------------------------------------------------
Ids(seq) == [i \in 1..Len(seq) |-> seq[i].signal_id]

IdSet(seq) == {seq[i].signal_id : i \in 1..Len(seq)}

Elems(seq) == {seq[i] : i \in 1..Len(seq)}

Lookup(seq, id) == seq[CHOOSE i \in 1..Len(seq) : seq[i].signal_id = id]

\* d[signal_id] = signal
DictPut(seq, signal) ==
  IF signal.signal_id \in IdSet(seq)
  THEN [i \in 1..Len(seq) |->
          IF seq[i].signal_id = signal.signal_id THEN signal ELSE seq[i]]
  ELSE Append(seq, signal)

\* del d[signal_id]
DictDel(seq, id) == SelectSeq(seq, LAMBDA x : x.signal_id # id)

\* the closing signal is one dict object: every reference to it (an entry of
\* the performance list left by an earlier closure) sees the new fields
Alias(seq, signal) ==
  [i \in 1..Len(seq) |->
     IF seq[i].signal_id = signal.signal_id THEN signal ELSE seq[i]]

\* the same for the performance list, whose first n entries were read from
\* performance.json at start-up: those are objects of their own, which no
\* entry of the open set refers to
AliasLogged(seq, signal, n) ==
  [i \in 1..Len(seq) |->
     IF i > n /\ seq[i].signal_id = signal.signal_id THEN signal ELSE seq[i]]

\* ---------------------------------------------------------------------
\* JSONManager.save: the file holds the data when the write succeeds and
\* keeps its previous content (the .bak is renamed back) when it raises
\* ---------------------------------------------------------------------
save(file, data, ok) == IF ok THEN data ELSE file

\* ---------------------------------------------------------------------
\* Inputs of the lifecycle model
\* ---------------------------------------------------------------------
\* 100.00 (500 units to 1.00), the close of every candle window the cycle
\* loop is fed
BaseClose == 100 * 500

\* a window with no directional evidence: scores 0 / 0, HOLD
QuietSnap ==
  [ema_fast |-> 2, ema_slow |-> 2, prev_ema_fast |-> 2, prev_ema_slow |-> 2,
   rsi |-> 50, close |-> BaseClose, bb_upper |-> BaseClose + 1000,
   bb_lower |-> BaseClose - 1000, bb_width |-> 10, vwap |-> BaseClose,
   prev_close |-> BaseClose, prev_vwap |-> BaseClose, volume_ratio |-> 10,
   price_change |-> 0, atr |-> 500, candles |-> 100, missing |-> {}, nan |-> {}]

\* a golden cross on an oversold market with volume: BUY
BullSnap(atr) ==
  [QuietSnap EXCEPT !.ema_fast = 3, !.rsi = 25, !.volume_ratio = 20, !.atr = atr]

\* a death cross on an overbought market with volume: SELL
BearSnap(atr) ==
  [QuietSnap EXCEPT !.ema_fast = 1, !.rsi = 75, !.volume_ratio = 20, !.atr = atr]

\* ATR of the BUY windows fed to the cycle loop: flat candles (0) and 1.00
CycleAtrs == {0, 500}

\* the windows of the lifecycle model: quiet, BUY at each ATR, SELL at ATR 1.00
CycleSnaps ==
  {QuietSnap, BearSnap(500)} \cup {BullSnap(a) : a \in CycleAtrs}

\* prices the ticker returns while monitoring: 97.00, 100.00, 103.00
TickerPrices == {48500, 50000, 51500}

\* what get_current_price returns: a price, or None when the request failed
PriceInputs == {None} \cup {Some(p) : p \in TickerPrices}

\* seconds the clock advances while the loop sleeps: the configured interval,
\* and a sleep that ends one interval after the end of the signal lifetime
SleepDeltas ==
  {ANALYSIS_INTERVAL, MAX_SIGNAL_LIFETIME_HOURS * 3600 + ANALYSIS_INTERVAL}

\* sleeps that end inside, exactly at, and one interval after the end of the
\* cooldown window
CooldownSleeps ==
  {ANALYSIS_INTERVAL, SIGNAL_COOLDOWN_MINUTES * 60,
   SIGNAL_COOLDOWN_MINUTES * 60 + ANALYSIS_INTERVAL}

\* seconds between the clock reading of validate_signal and the later
\* reading of _create_signal
Latencies == {0, 2}

\* what the two saves of a closure do: both succeed, the performance save
\* raises, or the open-set save raises
SaveOutcomes == {"ok", "perf_fail", "active_fail"}

\* ---------------------------------------------------------------------
\* State
\* ---------------------------------------------------------------------
VARIABLES
  now,             \* the wall clock, seconds
  cycles,          \* sleeps of the cycle loop so far
  pc,              \* position of TradingSignalService.run in its loop body
  idx,             \* index into SYMBOLS of the symbol analysed next
  active_signals,  \* SignalGenerator.active_signals
  performance,     \* SignalGenerator.performance
  last_signals,    \* ScalpingStrategy.last_signals
  file_active,     \* content of active_signals.json
  file_perf,       \* content of performance.json
  todo,            \* monitor pass: ids of list(active_signals.items()) still to visit
  closed_signals,  \* monitor pass: the list it returns
  iter,            \* monitor pass: signal_id, signal as found, current_price
                   \* of the iteration that ran last, and whether it raised
  snap,            \* the input drawn for the scoring specification: a candle
                   \* window, or a pair of accumulated scores
  env,             \* the input sets the environment draws from, fixed by Init
  ret,             \* the call that ran last, with its inputs and what it
                   \* returned; recorded when env.observe
  outbox,          \* what run handed to the SignalDistributor so far, in
                   \* order
  run,             \* the locals of TradingSignalService.run: the signal
                   \* analyze_symbol returned and run is about to distribute,
                   \* and how many entries of closed_signals its notification
                   \* loop has gone through
  boot             \* the running process: how many times the service was
                   \* started again after a stop, how many entries of
                   \* performance it read from performance.json at start-up,
                   \* and the signals that are in neither file since a stop

vars == <<now, cycles, pc, idx, active_signals, performance, last_signals,
          file_active, file_perf, todo, closed_signals, iter, snap, env, ret,
          outbox, run, boot>>

\* SignalGenerator.__init__ and ScalpingStrategy.__init__ on empty data files
InitData ==
  /\ now = 0
  /\ cycles = 0
  /\ pc = "analyze"
  /\ idx = 1
  /\ active_signals = <<>>
  /\ performance = <<>>
  /\ last_signals = <<>>
  /\ file_active = <<>>
  /\ file_perf = <<>>
  /\ todo = <<>>
  /\ closed_signals = <<>>
  /\ iter = None
  /\ ret = None
  /\ outbox = <<>>
  /\ run = [signal |-> None, notified |-> 0]
  /\ boot = [count |-> 0, loaded |-> 0, lost |-> {}]

\* the environment of the lifecycle specification: one signal, every
\* direction and ATR, every answer of the ticker, every outcome of the
\* closure saves
CycleEnv ==
  [snaps |-> CycleSnaps, latencies |-> {0}, analysis_saves |-> {TRUE},
   prices |-> PriceInputs, closure_saves |-> SaveOutcomes, sleeps |-> SleepDeltas,
   max_signals |-> CycleSignals, observe |-> FALSE,
   deliveries |-> {TRUE}, max_cycles |-> MaxCycles]

Init == InitData /\ snap = QuietSnap /\ env = CycleEnv

\* the environment of the cooldown specification: several signals, a clock
\* that moves between the gate and the creation, a ticker that may fail
CooldownEnv ==
  [snaps |-> {QuietSnap, BullSnap(500), BearSnap(500)}, latencies |-> Latencies,
   analysis_saves |-> {TRUE},
   prices |-> {None, Some(50000), Some(51500)}, closure_saves |-> {"ok"},
   sleeps |-> CooldownSleeps, max_signals |-> PairSignals, observe |-> FALSE,
   deliveries |-> {TRUE}, max_cycles |-> MaxCycles]

InitCooldown == InitData /\ snap = QuietSnap /\ env = CooldownEnv

\* a frame on which one indicator family could not be computed
FailedSnap == [BullSnap(500) EXCEPT !.missing = {"vwap", "volume"}]

\* entry prices of the signals the profit specification closes: 100.00 and 40.00
PnlEntries == {50000, 20000}

\* closing price less entry price: 5.00 and 5.036 either way (on 100.00 gains
\* of 5 % and of 5.036 %, to be rounded), nothing, and 0.002 and 0.006 either
\* way (on 40.00 gains of 0.005 % and 0.015 %, halfway between two hundredths)
PnlGains == {-2518, -2500, -3, -1, 0, 1, 3, 2500, 2518}

\* seconds from creation to closure; 3, 9, 21 and 27 s are halfway between two
\* tenths of a minute
PnlAges == {3, 9, 10, 21, 27, 60}

\* the environment of the fault specification: analyses that raise, saves
\* that raise at creation and at closure, and a ticker that fails, returns 0.0
\* or returns 95.00, under the stop of a BUY entered at 100.00
FaultEnv ==
  [snaps |-> {QuietSnap, BullSnap(500), FailedSnap},
   latencies |-> {0}, analysis_saves |-> BOOLEAN,
   prices |-> {None, Some(0), Some(47500)},
   closure_saves |-> SaveOutcomes,
   sleeps |-> {ANALYSIS_INTERVAL}, max_signals |-> PairSignals, observe |-> TRUE,
   deliveries |-> {TRUE}, max_cycles |-> MaxCycles]

InitFault == InitData /\ snap = QuietSnap /\ env = FaultEnv

\* the environment of the profit specification: every save succeeding; the
\* price the ticker returns is drawn with the signal
PnlEnv ==
  [snaps |-> {}, latencies |-> {0}, analysis_saves |-> {TRUE},
   prices |-> {},
   closure_saves |-> {"ok"},
   sleeps |-> {}, max_signals |-> 1, observe |-> FALSE,
   deliveries |-> {TRUE}, max_cycles |-> MaxCycles]

\* a service started on data files that hold one open signal and an empty
\* log, at the iteration of its first pass over that signal.  The signal is of
\* either direction, was created on flat candles (ATR 0: both levels are at
\* the entry, so each price closes it), and the ticker returns the drawn price.
InitPnl ==
  \E type \in {"BUY", "SELL"}, entry \in PnlEntries, gain \in PnlGains, age \in PnlAges :
    LET window == [QuietSnap EXCEPT !.close = entry, !.atr = 0]
        signal == _create_signal(SYMBOLS[1], type, MIN_CONFIDENCE,
                                 _calculate_stops(window, type), 0)
    IN  /\ now = age
        /\ cycles = 0
        /\ pc = "monitoring"
        /\ idx = 1
        /\ active_signals = <<signal>>
        /\ performance = <<>>
        /\ last_signals = <<>>
        /\ file_active = <<signal>>
        /\ file_perf = <<>>
        /\ todo = <<signal.signal_id>>
        /\ closed_signals = <<>>
        /\ iter = None
        /\ snap = window
        /\ env = [PnlEnv EXCEPT !.prices = {Some(entry + gain)}]
        /\ ret = None
        /\ outbox = <<>>
        /\ run = [signal |-> None, notified |-> 0]
        /\ boot = [count |-> 0, loaded |-> 0, lost |-> {}]

\* the environment of the delivery specification: signals of both
\* directions that close at a level, stay open or expire, every save
\* succeeding, and sends to the subscriber that succeed or fail
NotifyEnv ==
  [snaps |-> {QuietSnap, BullSnap(500), BearSnap(500)},
   latencies |-> {0}, analysis_saves |-> {TRUE},
   prices |-> {Some(p) : p \in TickerPrices},
   closure_saves |-> {"ok"},
   sleeps |-> SleepDeltas, max_signals |-> CycleSignals, observe |-> TRUE,
   deliveries |-> BOOLEAN, max_cycles |-> MaxCycles]

InitNotify == InitData /\ snap = QuietSnap /\ env = NotifyEnv

\* the environment of the limits specification: a market that turns from
\* cycle to cycle, a ticker that stays at the entry price (nothing closes) or
\* falls by 3 %, sleeps of one interval and of one interval past the cooldown
LimitEnv ==
  [snaps |-> {QuietSnap, BullSnap(500), BearSnap(500)},
   latencies |-> {0}, analysis_saves |-> {TRUE},
   prices |-> {Some(BaseClose), Some(48500)},
   closure_saves |-> {"ok"},
   sleeps |-> {ANALYSIS_INTERVAL, SIGNAL_COOLDOWN_MINUTES * 60 + ANALYSIS_INTERVAL},
   max_signals |-> LimitSignals, observe |-> FALSE,
   deliveries |-> {TRUE}, max_cycles |-> LimitCycles]

InitLimit == InitData /\ snap = QuietSnap /\ env = LimitEnv

\* ---------------------------------------------------------------------
\* SignalDistributor, with one active subscriber; delivered tells whether the
\* send to the subscriber succeeded (_send_to_user returns False when it did
\* not, and nothing is raised)
\* ---------------------------------------------------------------------
_format_signal_message(signal) ==
  [title |-> "SIGNAL", type |-> signal.type, price |-> signal.price]

distribute_signal(signal, delivered) ==
  [kind |-> "signal", signal_id |-> signal.signal_id,
   message |-> _format_signal_message(signal),
   successful |-> IF delivered THEN 1 ELSE 0]

\* the title is the take-profit one for TAKE_PROFIT and the stop-loss one
\* for every other status
_format_update_message(signal_id, status, pnl_percent) ==
  [title |-> IF status = "TAKE_PROFIT" THEN "OBJETIVO ALCANZADO"
                                       ELSE "STOP LOSS ACTIVADO",
   pnl_text |-> pnl_percent, signal_id |-> signal_id]

send_signal_update(signal_id, status, pnl_percent, delivered) ==
  [kind |-> "update", signal_id |-> signal_id,
   message |-> _format_update_message(signal_id, status, pnl_percent),
   successful |-> IF delivered THEN 1 ELSE 0]

\* TradingSignalService._notify_signal_closed: the update for one closed signal
_notify_signal_closed(signal, delivered) ==
  send_signal_update(signal.signal_id, signal.status, signal.pnl_percent[1],
                     delivered)

\* ---------------------------------------------------------------------
\* SignalGenerator.analyze_symbol, called by run for SYMBOLS[idx]
\* ---------------------------------------------------------------------
\* run with a failed delivery ending the cycle
NextSymbol_delivery_abort ==
  IF outbox' # outbox /\ outbox'[Len(outbox')].successful = 0
  THEN idx' = 1 /\ pc' = "sleep"
  ELSE /\ idx' = IF idx < NumSymbols THEN idx + 1 ELSE 1
       /\ pc' = IF idx < NumSymbols THEN "analyze" ELSE "monitor"

\* run moves on to the next symbol, or to the monitoring pass
NextSymbol ==
  /\ idx' = IF idx < NumSymbols THEN idx + 1 ELSE 1
  /\ pc' = IF idx < NumSymbols THEN "analyze" ELSE "monitor"

\* what analyze_symbol leaves for an observer: the frame it analysed (None
\* without klines; else its size and quality), the result of the strategy
\* (None when it was not asked; its type is "RAISED" when analyze raised), the
\* verdict of the cooldown gate ("NONE" when it was not consulted), whether the
\* save raised, and the value returned to run
Observed(symbol, frame, result, gate, save_raised, value) ==
  IF env.observe
  THEN Some([op |-> "analyze_symbol", symbol |-> symbol, frame |-> frame,
             result |-> result, gate |-> gate, save_raised |-> save_raised,
             value |-> value])
  ELSE None

\* the size and quality of a frame, and the result of analyze on it
Frame(s) == Some([candles |-> s.candles, missing |-> s.missing, nan |-> s.nan])

Result(r) ==
  Some([type |-> IF r.raised THEN "RAISED" ELSE r.type,
        confidence |-> r.confidence, levels |-> r.stops # None])

\* klines: whether get_klines returned data; s: the window; lat: seconds
\* until _create_signal reads the clock; save_ok: whether the save succeeds.
\* Every exception is caught at the end of the body, which then returns None.
\* analyze_symbol with the cooldown gate consulted before the HOLD test
analyze_symbol_gate_first(symbol, klines, s, lat, save_ok) ==
  LET r == analyze(s)
      v == validate_signal(last_signals, symbol, r.type, now)
      signal == _create_signal(symbol, r.type, r.confidence, r.stops[1], now + lat)
  IN  IF ~klines
      THEN /\ UNCHANGED <<now, active_signals, last_signals, file_active>>
           /\ ret' = Observed(symbol, None, None, "NONE", FALSE, None)
           /\ run' = [run EXCEPT !.signal = None]
      ELSE IF r.raised
      THEN /\ UNCHANGED <<now, active_signals, last_signals, file_active>>
           /\ ret' = Observed(symbol, Frame(s), Result(r), "NONE", FALSE, None)
           /\ run' = [run EXCEPT !.signal = None]
      ELSE IF ~v.ok
      THEN /\ UNCHANGED <<now, active_signals, last_signals, file_active>>
           /\ ret' = Observed(symbol, Frame(s), Result(r), "REJECT", FALSE, None)
           /\ run' = [run EXCEPT !.signal = None]
      ELSE IF r.type = "HOLD"
      THEN /\ last_signals' = v.last
           /\ UNCHANGED <<now, active_signals, file_active>>
           /\ ret' = Observed(symbol, Frame(s), Result(r), "PASS", FALSE, None)
           /\ run' = [run EXCEPT !.signal = None]
      ELSE /\ last_signals' = v.last
           /\ now' = now + lat
           /\ active_signals' = DictPut(active_signals, signal)
           /\ file_active' = save(file_active, active_signals', save_ok)
           /\ ret' = Observed(symbol, Frame(s), Result(r), "PASS", ~save_ok,
                              IF save_ok THEN Some(signal) ELSE None)
           /\ run' = [run EXCEPT !.signal = IF save_ok THEN Some(signal) ELSE None]

analyze_symbol(symbol, klines, s, lat, save_ok) ==
  LET r == analyze(s)
      v == validate_signal(last_signals, symbol, r.type, now)
      signal == _create_signal(symbol, r.type, r.confidence, r.stops[1], now + lat)
  IN  IF ~klines
      THEN /\ UNCHANGED <<now, active_signals, last_signals, file_active>>
           /\ ret' = Observed(symbol, None, None, "NONE", FALSE, None)
           /\ run' = [run EXCEPT !.signal = None]
      ELSE IF r.raised \/ r.type = "HOLD"
      THEN /\ UNCHANGED <<now, active_signals, last_signals, file_active>>
           /\ ret' = Observed(symbol, Frame(s), Result(r), "NONE", FALSE, None)
           /\ run' = [run EXCEPT !.signal = None]
      ELSE IF ~v.ok
      THEN /\ UNCHANGED <<now, active_signals, last_signals, file_active>>
           /\ ret' = Observed(symbol, Frame(s), Result(r), "REJECT", FALSE, None)
           /\ run' = [run EXCEPT !.signal = None]
      ELSE /\ last_signals' = v.last
           /\ now' = now + lat
           /\ active_signals' = DictPut(active_signals, signal)
           /\ file_active' = save(file_active, active_signals', save_ok)
           /\ ret' = Observed(symbol, Frame(s), Result(r), "PASS", ~save_ok,
                              IF save_ok THEN Some(signal) ELSE None)
           /\ run' = [run EXCEPT !.signal = IF save_ok THEN Some(signal) ELSE None]

\* the signals created so far: those the service holds, and those a stop
\* inside a save wiped from the files
Created == IdSet(active_signals) \cup IdSet(performance) \cup boot.lost

\* run: signal = await self.signal_gen.analyze_symbol(symbol); `if signal:`
\* leads to the distribution, which run awaits, and else to the next symbol
AnalyzeSymbol ==
  /\ pc = "analyze"
  /\ \E klines \in BOOLEAN, lat \in env.latencies, save_ok \in env.analysis_saves,
        s \in (IF Cardinality(Created) < env.max_signals THEN env.snaps ELSE {QuietSnap}) :
       analyze_symbol(SYMBOLS[idx], klines, s, lat, save_ok)
  /\ UNCHANGED <<cycles, performance, file_perf, todo, closed_signals, iter, snap, env,
                 outbox, boot>>
  /\ IF run'.signal # None
     THEN pc' = "distribute" /\ idx' = idx
     ELSE NextSymbol

\* run: sent = await self.distributor.distribute_signal(signal), then the next
\* symbol; the signal is stored and saved by then
Distribute ==
  /\ pc = "distribute"
  /\ \E delivered \in env.deliveries :
       outbox' = Append(outbox, distribute_signal(run.signal[1], delivered))
  /\ run' = [run EXCEPT !.signal = None]
  /\ NextSymbol
  /\ UNCHANGED <<now, cycles, active_signals, performance, last_signals,
                 file_active, file_perf, todo, closed_signals, iter, snap, env,
                 ret, boot>>

\* ---------------------------------------------------------------------
\* SignalGenerator.monitor_active_signals
\* ---------------------------------------------------------------------
\* `if not current_price`: true for None and for a price of 0.0
NoPrice(price) == price = None \/ price[1] = 0

\* what one iteration of the loop decides for a signal at price (None when
\* get_current_price returned nothing) and clock reading t
MonitorOutcome(signal, price, t) ==
  IF NoPrice(price) THEN "SKIP"
  ELSE LET status == _check_signal_status(signal, price[1])
       IN  IF status \in {"STOP_LOSS", "TAKE_PROFIT"} THEN status
           ELSE IF _is_expired(signal, t) THEN "EXPIRED"
           ELSE "ACTIVE"

\* _close_signal: write the closing fields, append to the performance log and
\* save it, delete from the open set and save it.  A save that raises ends the
\* call there; the loop of the pass catches the exception and goes on.
_close_signal(signal, close_price, status, outcome) ==
  LET closed == ClosedRecord(signal, close_price, status, now)
      perf   == Append(AliasLogged(performance, closed, boot.loaded), closed)
      active == Alias(active_signals, closed)
  IN  /\ performance' = perf
      /\ file_perf' = save(file_perf, perf, outcome # "perf_fail")
      /\ IF outcome = "perf_fail"
         THEN /\ active_signals' = active
              /\ UNCHANGED <<file_active, closed_signals>>
         ELSE /\ active_signals' = DictDel(active, closed.signal_id)
              /\ file_active' = save(file_active, active_signals', outcome = "ok")
              /\ closed_signals' = IF outcome = "ok"
                                   THEN Append(closed_signals, closed)
                                   ELSE closed_signals

\* the loop with break in place of continue on a missing price
LoopPosition_break(o, raised, rest) ==
  IF o = "SKIP" \/ rest = <<>> THEN "notify" ELSE "monitoring"

\* the loop with the try / except around it instead of inside it
LoopPosition_abort(o, raised, rest) ==
  IF raised \/ rest = <<>> THEN "notify" ELSE "monitoring"

\* where the pass stands after an iteration with outcome o, raised telling
\* whether the body raised: `continue`, the end of the body and the except
\* clause inside the loop all go on to the next entry of the snapshot, and the
\* pass returns to run, which goes on to its notification loop, when none is left
LoopPosition(o, raised, rest) ==
  IF rest = <<>> THEN "notify" ELSE "monitoring"

\* run after the pass returned closed: `for signal in closed_signals` has a
\* first iteration when the list is not empty; else run goes to its sleep
AfterPass(position, closed) ==
  IF position = "notify" /\ closed = <<>> THEN "sleep" ELSE position

\* the pass starts: nothing to do on an empty open set, else snapshot it
MonitorStart ==
  /\ pc = "monitor"
  /\ closed_signals' = <<>>
  /\ iter' = None
  /\ IF active_signals = <<>>
     THEN pc' = "sleep" /\ todo' = <<>>
     ELSE pc' = "monitoring" /\ todo' = Ids(active_signals)
  /\ ret' = None
  /\ UNCHANGED <<now, cycles, idx, active_signals, performance, last_signals,
                 file_active, file_perf, snap, env, outbox, run, boot>>

\* one iteration of the loop over the snapshot
MonitorStep ==
  /\ pc = "monitoring"
  /\ todo # <<>>
  /\ \E price \in env.prices, outcome \in env.closure_saves :
       LET signal == Lookup(active_signals, Head(todo))
           o == MonitorOutcome(signal, price, now)
           raised == o \notin {"SKIP", "ACTIVE"} /\ outcome # "ok"
       IN  /\ iter' = Some([signal_id |-> Head(todo), signal |-> signal,
                            current_price |-> price, raised |-> raised])
           /\ IF o \in {"SKIP", "ACTIVE"}
              THEN UNCHANGED <<active_signals, performance, file_active,
                               file_perf, closed_signals>>
              ELSE _close_signal(signal, price[1], o, outcome)
           /\ pc' = AfterPass(LoopPosition(o, raised, Tail(todo)), closed_signals')
  /\ todo' = Tail(todo)
  /\ UNCHANGED <<now, cycles, idx, last_signals, snap, env, ret, outbox, run, boot>>

\* one iteration of run's loop over the closed signals:
\* await self._notify_signal_closed(signal); each update is delivered or not
\* on its own
NotifyClosed ==
  /\ pc = "notify"
  /\ run.notified < Len(closed_signals)
  /\ \E delivered \in env.deliveries :
       outbox' = Append(outbox, _notify_signal_closed(
                                  closed_signals[run.notified + 1], delivered))
  /\ IF run.notified + 1 < Len(closed_signals)
     THEN pc' = "notify" /\ run' = [run EXCEPT !.notified = run.notified + 1]
     ELSE pc' = "sleep" /\ run' = [run EXCEPT !.notified = 0]
  /\ UNCHANGED <<now, cycles, idx, active_signals, performance, last_signals,
                 file_active, file_perf, todo, closed_signals, iter, snap, env,
                 ret, boot>>

\* asyncio.sleep(ANALYSIS_INTERVAL): the clock moves on by at least the interval
Sleep ==
  /\ pc = "sleep"
  /\ cycles < env.max_cycles
  /\ \E d \in env.sleeps : now' = now + d
  /\ cycles' = cycles + 1
  /\ pc' = "analyze"
  /\ iter' = None
  /\ closed_signals' = <<>>
  /\ ret' = None
  /\ UNCHANGED <<idx, active_signals, performance, last_signals, file_active,
                 file_perf, todo, snap, env, outbox, run, boot>>

Next == AnalyzeSymbol \/ Distribute \/ MonitorStart \/ MonitorStep
          \/ NotifyClosed \/ Sleep

Spec == Init /\ [][Next]_vars

SpecCooldown == InitCooldown /\ [][Next]_vars

SpecFault == InitFault /\ [][Next]_vars

\* the closure of the drawn signal and its notification
NextPnl == MonitorStep \/ NotifyClosed

SpecPnl == InitPnl /\ [][NextPnl]_vars

SpecNotify == InitNotify /\ [][Next]_vars

SpecLimit == InitLimit /\ [][Next]_vars

\* ---------------------------------------------------------------------
\* The scoring specification: the first analyze_symbol of a fresh service
\* on every candle window of a bounded product of indicator values
\* ---------------------------------------------------------------------
\* every combination of the comparisons scoring makes, at close 100.00
ScoreSnaps ==
  {[ema_fast |-> ef, ema_slow |-> 2, prev_ema_fast |-> pf, prev_ema_slow |-> 2,
    rsi |-> r, close |-> BaseClose, bb_upper |-> b[2], bb_lower |-> b[1],
    bb_width |-> bw, vwap |-> vw, prev_close |-> pcl, prev_vwap |-> BaseClose,
    volume_ratio |-> vr, price_change |-> ch, atr |-> 500, candles |-> 100,
    missing |-> {}, nan |-> {}] :
     ef \in {1, 2, 3}, pf \in {1, 2, 3},
     r \in {25, 30, 35, 40, 50, 60, 65, 70, 75},
     b \in {<<BaseClose - 1000, BaseClose + 1000>>, <<BaseClose, BaseClose + 1000>>,
            <<BaseClose - 1000, BaseClose>>},
     bw \in {20, 30},
     vw \in {BaseClose - 100, BaseClose - 10, BaseClose, BaseClose + 10, BaseClose + 100},
     pcl \in {BaseClose - 10, BaseClose, BaseClose + 10},
     vr \in {15, 20},
     ch \in {-30, -20, 0, 20, 30}}

\* a BUY and a SELL window at every unrounded close and every ATR from flat
\* candles (0) upwards
StopSnaps ==
  {[sn EXCEPT !.close = c, !.bb_lower = c - 1000, !.bb_upper = c + 1000,
              !.vwap = c, !.prev_close = c, !.prev_vwap = c, !.atr = a] :
     sn \in {BullSnap(500), BearSnap(500)},
     c \in BaseClose..(BaseClose + 5),
     a \in {0, 1, 2, 3, 4, 5, 250, 500}}

\* windows without a fresh VWAP cross whose close is exactly 0.1 % above or
\* below the VWAP, where the float product vwap * 1.001 or vwap * 0.999 decides
EdgeSnaps ==
  {[sn EXCEPT !.close = e[1], !.bb_lower = e[1] - 1000, !.bb_upper = e[1] + 1000,
              !.vwap = e[2], !.prev_close = e[1], !.prev_vwap = e[2]] :
     sn \in {QuietSnap, BullSnap(500), BearSnap(500)},
     e \in {<<3003, 3000>>, <<5005, 5000>>, <<6006, 6000>>, <<50050, 50000>>,
            <<2997, 3000>>, <<4995, 5000>>, <<5994, 6000>>, <<49950, 50000>>}}

ScoreEnv ==
  [snaps |-> {}, latencies |-> {0}, analysis_saves |-> {TRUE}, prices |-> {},
   closure_saves |-> {}, sleeps |-> {}, max_signals |-> 1, observe |-> TRUE,
   deliveries |-> {TRUE}, max_cycles |-> MaxCycles]

\* accumulated scores: every multiple of 0.025 up to the largest sum of the
\* weights and the crossing bonus
ScoreGrid == {25 * i : i \in 0..42}

\* pairs of accumulated scores handed to the final decision
ScorePairs == {Score(b, sl) : b \in ScoreGrid, sl \in ScoreGrid}

InitScore ==
  /\ InitData
  /\ snap \in ScoreSnaps \cup StopSnaps \cup EdgeSnaps \cup ScorePairs
  /\ env = ScoreEnv

\* the first call of the first cycle, on the window drawn at Init
AnalyzeDrawn ==
  /\ pc = "analyze"
  /\ "candles" \in DOMAIN snap
  /\ cycles = 0
  /\ idx = 1
  /\ analyze_symbol(SYMBOLS[1], TRUE, snap, 0, TRUE)
  /\ pc' = "analyzed"
  /\ UNCHANGED <<cycles, idx, performance, file_perf, todo, closed_signals, iter,
                 snap, env, outbox, boot>>

\* the final decision of _generate_signal on the pair drawn at Init
DecideDrawn ==
  /\ pc = "analyze"
  /\ "buy" \in DOMAIN snap
  /\ ret' = Some([op |-> "Decide", value |-> Decide(snap)])
  /\ pc' = "decided"
  /\ UNCHANGED <<now, cycles, idx, active_signals, performance, last_signals,
                 file_active, file_perf, todo, closed_signals, iter, snap, env,
                 outbox, run, boot>>

NextScore == AnalyzeDrawn \/ DecideDrawn

SpecScore == InitScore /\ [][NextScore]_vars

\* ---------------------------------------------------------------------
\* The frame specification: the first analyze_symbol of a fresh service on
\* frames of every size and quality
\* ---------------------------------------------------------------------
\* numbers of candles get_klines may return for limit=100
FrameSizes == {1, 49, 50, 100}

\* what calculate_all may leave absent: nothing, or the columns of one family
\* whose computation raised (vwap and volume fail together on a bad volume
\* column)
FrameMissing ==
  {{}, {"ema"}, {"rsi"}, {"bollinger"}, {"vwap", "volume"}, {"atr"}, {"price_action"}}

\* NaN in the latest row: nothing, or vwap (no volume in the whole window;
\* volume_ratio is then filled with 1.0)
FrameNan == {{}, {"vwap"}}

FrameSnaps ==
  {[sn EXCEPT !.candles = n, !.missing = m, !.nan = x,
              !.volume_ratio = IF x = {} THEN sn.volume_ratio ELSE 10] :
     sn \in {QuietSnap, BullSnap(500), BearSnap(500)},
     n \in FrameSizes, m \in FrameMissing, x \in FrameNan}

InitFrame == InitData /\ snap \in FrameSnaps /\ env = ScoreEnv

SpecFrame == InitFrame /\ [][AnalyzeDrawn]_vars

\* ---------------------------------------------------------------------
\* SignalGenerator.get_performance_stats, called by the bot while run sleeps
\* ---------------------------------------------------------------------
\* a quotient of two integers (the code divides floats); 0 is Ratio(0, 1)
Ratio(n, d) == [num |-> n, den |-> d]

\* sum(s['pnl_percent'] for s in seq)
RECURSIVE SumPnl(_)
SumPnl(seq) ==
  IF seq = <<>> THEN 0 ELSE Head(seq).pnl_percent[1] + SumPnl(Tail(seq))

\* the statistics with breakeven entries counted on neither side
get_performance_stats_strict(perf, days, t) ==
  LET cutoff == t - days * 86400
      recent == SelectSeq(perf, LAMBDA x : x.close_time[1] > cutoff)
      winners == SelectSeq(recent, LAMBDA x : x.pnl_percent[1] > 0)
      losers == SelectSeq(recent, LAMBDA x : x.pnl_percent[1] < 0)
      total_wins == SumPnl(winners)
      total_losses == Abs(SumPnl(losers))
  IN  IF perf = <<>> \/ recent = <<>> THEN None
      ELSE Some([total_signals |-> Len(recent),
                 winners |-> Len(winners),
                 losers |-> Len(losers),
                 win_rate |-> Ratio(Len(winners), Len(recent)),
                 avg_win |-> IF Len(winners) > 0
                             THEN Ratio(SumPnl(winners), Len(winners))
                             ELSE Ratio(0, 1),
                 avg_loss |-> IF Len(losers) > 0
                              THEN Ratio(SumPnl(losers), Len(losers))
                              ELSE Ratio(0, 1),
                 profit_factor |-> IF total_losses > 0
                                   THEN Ratio(total_wins, total_losses)
                                   ELSE Ratio(0, 1),
                 total_pnl |-> SumPnl(recent)])

\* perf is self.performance, t the clock reading of the call
get_performance_stats(perf, days, t) ==
  LET cutoff == t - days * 86400
      recent == SelectSeq(perf, LAMBDA x : x.close_time[1] > cutoff)
      winners == SelectSeq(recent, LAMBDA x : x.pnl_percent[1] > 0)
      losers == SelectSeq(recent, LAMBDA x : x.pnl_percent[1] <= 0)
      total_wins == SumPnl(winners)
      total_losses == Abs(SumPnl(losers))
  IN  IF perf = <<>> \/ recent = <<>> THEN None
      ELSE Some([total_signals |-> Len(recent),
                 winners |-> Len(winners),
                 losers |-> Len(losers),
                 win_rate |-> Ratio(Len(winners), Len(recent)),
                 avg_win |-> IF Len(winners) > 0
                             THEN Ratio(SumPnl(winners), Len(winners))
                             ELSE Ratio(0, 1),
                 avg_loss |-> IF Len(losers) > 0
                              THEN Ratio(SumPnl(losers), Len(losers))
                              ELSE Ratio(0, 1),
                 profit_factor |-> IF total_losses > 0
                                   THEN Ratio(total_wins, total_losses)
                                   ELSE Ratio(0, 1),
                 total_pnl |-> SumPnl(recent)])

\* the windows asked for, in days
StatsDays == {1, 2}

\* the environment of the statistics specification: signals of both
\* directions, closed with a gain, with a loss or, expired at the entry price,
\* with neither; a clock that sleeps one interval or past one day
StatsEnv ==
  [snaps |-> {QuietSnap, BullSnap(500), BearSnap(500)},
   latencies |-> {0}, analysis_saves |-> {TRUE},
   prices |-> {Some(47500), Some(50000), Some(52500)},
   closure_saves |-> {"ok"},
   sleeps |-> SleepDeltas, max_signals |-> PairSignals, observe |-> FALSE,
   deliveries |-> {TRUE}, max_cycles |-> MaxCycles]

InitStats == InitData /\ snap = QuietSnap /\ env = StatsEnv

\* the places where run awaits and another task of the event loop runs: the
\* distribution of a signal, the notification of a closure, and the sleep
Awaiting == pc \in {"distribute", "notify", "sleep"}

\* a bot command calls get_performance_stats while run awaits, and run itself
\* calls it before its loop (_print_startup_info)
GetPerformanceStats ==
  /\ (Awaiting \/ (pc = "analyze" /\ cycles = 0 /\ idx = 1))
  /\ \E days \in StatsDays :
       ret' = Some([op |-> "get_performance_stats", days |-> days, t |-> now,
                    value |-> get_performance_stats(performance, days, now)])
  /\ UNCHANGED <<now, cycles, pc, idx, active_signals, performance, last_signals,
                 file_active, file_perf, todo, closed_signals, iter, snap, env,
                 outbox, run, boot>>

NextStats == Next \/ GetPerformanceStats

SpecStats == InitStats /\ [][NextStats]_vars

\* ---------------------------------------------------------------------
\* The configuration specification: TradingSignalService.__init__ validates
\* the parameters before anything runs
\* ---------------------------------------------------------------------
\* sum(cls.WEIGHTS.values()), in thousandths
RECURSIVE SumWeights(_, _)
SumWeights(w, keys) ==
  IF keys = {} THEN 0
  ELSE LET k == CHOOSE x \in keys : TRUE IN w[k] + SumWeights(w, keys \ {k})

\* the keys of WEIGHTS in the order of the dict, which is the order in which
\* sum adds its values
WeightKeys ==
  <<"ema_trend", "rsi_momentum", "bollinger", "vwap", "volume", "price_action">>

\* sum(cls.WEIGHTS.values()) as the float expression the interpreter
\* evaluates for the first n keys: the values are added one by one from the
\* left, each addition rounded to a double (0 + the first value is exact)
RECURSIVE TotalWeight(_, _)
TotalWeight(w, n) ==
  IF n = 1 THEN <<"float", w[WeightKeys[1]], 1000>>
  ELSE <<"add", TotalWeight(w, n - 1), <<"float", w[WeightKeys[n]], 1000>>>>

\* abs(total_weight - 1.0) as a float expression, total_weight being on the
\* side of 1.0 on which the exact sum lies
Deviation(w, above) ==
  IF above THEN <<"sub", TotalWeight(w, Len(WeightKeys)), <<"float", 1, 1>>>>
  ELSE <<"sub", <<"float", 1, 1>>, TotalWeight(w, Len(WeightKeys))>>

\* TradingParams.validate, weights check: "ok", or the ValueError it raises.
\* abs(total_weight - 1.0) > 0.01 is a comparison of doubles: when the exact
\* sum is 0.01 away from 1.0, the roundings of the additions and of the
\* literal 0.01 decide
validate(w) ==
  IF Greater(Abs(SumWeights(w, DOMAIN w) - 1000), 10,
             Deviation(w, SumWeights(w, DOMAIN w) >= 1000), <<"float", 1, 100>>)
  THEN "ValueError" ELSE "ok"

\* by how many thousandths one weight is moved away from its configured value
WeightShifts == {-20, -11, -10, -9, -1, 0, 1, 9, 10, 11, 20}

\* by how many thousandths a second weight is moved
PairShifts == {-10, 0, 10}

\* the configured weights with one of them shifted, or two
ShiftedWeights ==
  {[[WEIGHTS EXCEPT ![k] = @ + d] EXCEPT ![j] = @ + c] :
     k \in DOMAIN WEIGHTS, d \in WeightShifts,
     j \in DOMAIN WEIGHTS, c \in PairShifts}

InitConfig ==
  /\ now = 0
  /\ cycles = 0
  /\ pc = "startup"
  /\ idx = 1
  /\ active_signals = <<>>
  /\ performance = <<>>
  /\ last_signals = <<>>
  /\ file_active = <<>>
  /\ file_perf = <<>>
  /\ todo = <<>>
  /\ closed_signals = <<>>
  /\ iter = None
  /\ ret = None
  /\ outbox = <<>>
  /\ run = [signal |-> None, notified |-> 0]
  /\ boot = [count |-> 0, loaded |-> 0, lost |-> {}]
  /\ snap \in ShiftedWeights
  /\ env = ScoreEnv

\* TradingSignalService.__init__: a ValueError from validate ends the process
\* (sys.exit(1)); otherwise the components are built and run may start
Startup ==
  /\ pc = "startup"
  /\ ret' = Some([op |-> "validate", weights |-> snap, value |-> validate(snap)])
  /\ pc' = IF validate(snap) = "ok" THEN "analyze" ELSE "exit"
  /\ UNCHANGED <<now, cycles, idx, active_signals, performance, last_signals,
                 file_active, file_perf, todo, closed_signals, iter, snap, env,
                 outbox, run, boot>>

SpecConfig == InitConfig /\ [][Startup]_vars

\* ---------------------------------------------------------------------
\* The file specification: JSONManager.save and JSONManager.load on one
\* path.  disk.file and disk.bak are Absent, Partial (a file cut short by a
\* failed write, not valid JSON) or the number of the data they hold; the
\* data of the n-th call of save is n, and 0 is the default of load.
\* ---------------------------------------------------------------------
\* no file at the path
Absent == -1

\* a file that json.load cannot decode
Partial == -2

\* what the write of save does: it succeeds, open() raises (the file is not
\* touched), or json.dump raises after open() has truncated the file
WriteOutcomes == {"ok", "open_fail", "dump_fail"}

JSONManager_load(disk, default) ==
  IF disk.file \in {Absent, Partial} THEN default ELSE disk.file

\* rename_ok: filepath.rename(backup_path) succeeded; restore_ok:
\* backup_path.rename(filepath) succeeded.  Returns the disk afterwards and
\* whether the call raised.
JSONManager_save(disk, data, rename_ok, write, restore_ok) ==
  LET backed == IF disk.file # Absent /\ rename_ok
                THEN [file |-> Absent, bak |-> disk.file]
                ELSE disk
      written == IF write = "ok" THEN [backed EXCEPT !.file = data]
                 ELSE IF write = "dump_fail" THEN [backed EXCEPT !.file = Partial]
                 ELSE backed
      restored == IF written.bak # Absent /\ restore_ok
                  THEN [file |-> written.bak, bak |-> Absent]
                  ELSE written
  IN  IF write = "ok" THEN [disk |-> written, raised |-> FALSE]
      ELSE [disk |-> restored, raised |-> TRUE]

\* how many times save is called on the path
MaxSaves == 4

InitFile ==
  /\ now = 0
  /\ cycles = 0
  /\ pc = "file"
  /\ idx = 1
  /\ active_signals = <<>>
  /\ performance = <<>>
  /\ last_signals = <<>>
  /\ file_active = <<>>
  /\ file_perf = <<>>
  /\ todo = <<>>
  /\ closed_signals = <<>>
  /\ iter = None
  /\ ret = None
  /\ outbox = <<>>
  /\ run = [signal |-> None, notified |-> 0]
  /\ boot = [count |-> 0, loaded |-> 0, lost |-> {}]
  /\ snap = [file |-> Absent, bak |-> Absent]
  /\ env = ScoreEnv

\* the next call of save on the path
SaveFile ==
  /\ pc = "file"
  /\ cycles < MaxSaves
  /\ \E rename_ok \in BOOLEAN, write \in WriteOutcomes, restore_ok \in BOOLEAN :
       LET data == cycles + 1
           r == JSONManager_save(snap, data, rename_ok, write, restore_ok)
       IN  /\ snap' = r.disk
           /\ ret' = Some([op |-> "save", data |-> data, raised |-> r.raised,
                           renamed |-> snap.file = Absent \/ rename_ok,
                           before |-> JSONManager_load(snap, 0),
                           after |-> JSONManager_load(r.disk, 0)])
  /\ cycles' = cycles + 1
  /\ UNCHANGED <<now, pc, idx, active_signals, performance, last_signals,
                 file_active, file_perf, todo, closed_signals, iter, env, outbox, run, boot>>

SpecFile == InitFile /\ [][SaveFile]_vars

\* ---------------------------------------------------------------------
\* The gate specification: validate_signal called directly, for any symbol
\* and direction, on a clock that advances between the calls
\* ---------------------------------------------------------------------
\* the symbols the gate is called for
GateSymbols == {SYMBOLS[1], SYMBOLS[2]}

GateEnv ==
  [snaps |-> {}, latencies |-> {0}, analysis_saves |-> {TRUE}, prices |-> {},
   closure_saves |-> {}, sleeps |-> CooldownSleeps, max_signals |-> 0,
   observe |-> TRUE,
   deliveries |-> {TRUE}, max_cycles |-> MaxCycles]

InitGate == InitData /\ snap = QuietSnap /\ env = GateEnv

\* one call strategy.validate_signal(symbol, signal_type); ret keeps the key,
\* the clock reading, the stamp the key had before the call and the verdict
ValidateSignal ==
  /\ \E symbol \in GateSymbols, signal_type \in {"BUY", "SELL"} :
       LET key == <<symbol, signal_type>>
           v == validate_signal(last_signals, symbol, signal_type, now)
       IN  /\ last_signals' = v.last
           /\ ret' = Some([op |-> "validate_signal", symbol |-> symbol,
                           type |-> signal_type, t |-> now,
                           last |-> IF key \in DOMAIN last_signals
                                    THEN Some(last_signals[key]) ELSE None,
                           value |-> v.ok])
  /\ UNCHANGED <<now, cycles, pc, idx, active_signals, performance, file_active,
                 file_perf, todo, closed_signals, iter, snap, env, outbox, run, boot>>

\* time passes between two calls
Tick ==
  /\ cycles < MaxTicks
  /\ \E d \in env.sleeps : now' = now + d
  /\ cycles' = cycles + 1
  /\ UNCHANGED <<pc, idx, active_signals, performance, last_signals, file_active,
                 file_perf, todo, closed_signals, iter, snap, env, ret, outbox, run, boot>>

NextGate == ValidateSignal \/ Tick

SpecGate == InitGate /\ [][NextGate]_vars

\* ---------------------------------------------------------------------
\* Stop and restart.  The process stops inside _close_signal and is started
\* again: SignalGenerator.__init__ loads the open set and the performance
\* list from the two files, ScalpingStrategy.__init__ starts with an empty
\* last_signals, and run begins a cycle.
\* ---------------------------------------------------------------------
\* where _close_signal stands when the process stops: the closing fields are
\* written (312-333), _save_performance is under way (336), it has returned
\* and the entry is not yet deleted (336-340), _save_active_signals is under
\* way (341)
CrashPoints == {"computed", "in_perf_save", "between_saves", "in_active_save"}

\* the file a stopped save leaves at its path: none (the old one was renamed
\* to .bak) or one that open() truncated and json.dump did not finish
TornFiles == {Absent, Partial}

\* the environment of the restart specification: BUY signals, a ticker at
\* the stop (97.00) or at the entry, every save succeeding
CrashEnv ==
  [snaps |-> {QuietSnap, BullSnap(500)},
   latencies |-> {0}, analysis_saves |-> {TRUE},
   prices |-> {Some(48500), Some(BaseClose)},
   closure_saves |-> {"ok"},
   sleeps |-> {ANALYSIS_INTERVAL}, max_signals |-> PairSignals, observe |-> TRUE,
   deliveries |-> {TRUE}, max_cycles |-> MaxCycles]

InitCrash == InitData /\ snap = QuietSnap /\ env = CrashEnv

\* the process stops at a point of the closure of the signal the pass is at,
\* and the service starts again from the files
CrashInClosure ==
  /\ pc = "monitoring"
  /\ todo # <<>>
  /\ boot.count < MaxCrashes
  /\ \E price \in env.prices, point \in CrashPoints, torn \in TornFiles :
       LET signal == Lookup(active_signals, Head(todo))
           o == MonitorOutcome(signal, price, now)
           closed == ClosedRecord(signal, price[1], o, now)
           perf == Append(AliasLogged(performance, closed, boot.loaded), closed)
           disk_perf == IF point = "computed" THEN file_perf
                        ELSE IF point = "in_perf_save"
                        THEN JSONManager_load([file |-> torn, bak |-> Absent], <<>>)
                        ELSE perf
           disk_active == IF point = "in_active_save"
                          THEN JSONManager_load([file |-> torn, bak |-> Absent], <<>>)
                          ELSE file_active
       IN  /\ o \notin {"SKIP", "ACTIVE"}
           /\ file_perf' = disk_perf
           /\ file_active' = disk_active
           /\ active_signals' = disk_active
           /\ performance' = disk_perf
           /\ boot' = [count |-> boot.count + 1, loaded |-> Len(disk_perf),
                        lost |-> (Created \cup {signal.signal_id})
                                   \ (IdSet(disk_active) \cup IdSet(disk_perf))]
           /\ ret' = Some([op |-> "restart", point |-> point,
                           signal_id |-> signal.signal_id,
                           open_before |-> IdSet(active_signals),
                           logged_before |-> IdSet(file_perf)])
  /\ last_signals' = <<>>
  /\ pc' = "analyze"
  /\ idx' = 1
  /\ todo' = <<>>
  /\ closed_signals' = <<>>
  /\ iter' = None
  /\ run' = [signal |-> None, notified |-> 0]
  /\ UNCHANGED <<now, cycles, snap, env, outbox>>

NextCrash == Next \/ CrashInClosure

SpecCrash == InitCrash /\ [][NextCrash]_vars

\* ---------------------------------------------------------------------
\* The cycle loop running on.  run's `while True` never ends; the model
\* follows it for env.max_cycles sleeps.
\* ---------------------------------------------------------------------
\* the environment of the long-run specification: one BUY signal, a ticker
\* that fails or returns the entry price (no level is ever hit), every
\* outcome of the closure saves, a sleep that outlasts the lifetime
LiveEnv ==
  [snaps |-> {QuietSnap, BullSnap(500)},
   latencies |-> {0}, analysis_saves |-> {TRUE},
   prices |-> {None, Some(BaseClose)},
   closure_saves |-> SaveOutcomes,
   sleeps |-> SleepDeltas, max_signals |-> CycleSignals, observe |-> FALSE,
   deliveries |-> {TRUE}, max_cycles |-> LiveCycles]

InitLive == InitData /\ snap = QuietSnap /\ env = LiveEnv

SpecLive == InitLive /\ [][Next]_vars

\* =====================================================================
\* Properties
\* =====================================================================
Terminal == {"STOP_LOSS", "TAKE_PROFIT", "EXPIRED"}

\* every signal record the service holds
Held == Elems(active_signals) \cup Elems(performance)

\* the signal with this id as it is now
Current(id) ==
  IF id \in IdSet(active_signals) THEN Lookup(active_signals, id)
  ELSE Lookup(performance, id)

\* the iteration of the monitoring pass that ran last
IterSignal == iter[1].signal

IterPrice == iter[1].current_price[1]

Priced == iter # None /\ ~NoPrice(iter[1].current_price)

StopHit ==
  \/ IterSignal.type = "BUY" /\ IterPrice <= IterSignal.stop_loss
  \/ IterSignal.type = "SELL" /\ IterPrice >= IterSignal.stop_loss

TargetHit ==
  \/ IterSignal.type = "BUY" /\ IterPrice >= IterSignal.take_profit
  \/ IterSignal.type = "SELL" /\ IterPrice <= IterSignal.take_profit

Outlived == now - IterSignal.created_at > MAX_SIGNAL_LIFETIME_HOURS * 3600

\* the monitored signal now stands closed with this status at the fetched price
ClosedAs(status) ==
  LET c == Current(IterSignal.signal_id)
  IN  /\ c.status = status
      /\ c.close_price = Some(IterPrice)
      /\ c \in Elems(performance)

\* C1: a signal that has a terminal status keeps its status, close_price,
\* pnl_percent and duration_minutes in every later step (and so never
\* returns to ACTIVE or moves to another terminal status).
C1_TerminalIsFinal ==
  [][\A a \in Held : a.status \in Terminal =>
       \A b \in Elems(active_signals') \cup Elems(performance') :
         b.signal_id = a.signal_id =>
           /\ b.status = a.status
           /\ b.close_price = a.close_price
           /\ b.pnl_percent = a.pnl_percent
           /\ b.duration_minutes = a.duration_minutes]_vars

\* C2: outside a monitoring pass, every signal of the open set is ACTIVE,
\* every entry of the performance log has a terminal status, and no signal
\* is in both.
C2_OpenIffActive ==
  pc # "monitoring" =>
    /\ \A a \in Elems(active_signals) : a.status = "ACTIVE"
    /\ \A c \in Elems(performance) : c.status \in Terminal
    /\ IdSet(active_signals) \cap IdSet(performance) = {}

\* C3: no signal_id appears twice in the performance log.
C3_LoggedOnce ==
  \A i, j \in 1..Len(performance) :
    performance[i].signal_id = performance[j].signal_id => i = j

\* C4: with the price available, the pass closes the signal as STOP_LOSS when
\* the stop-loss condition holds (also when the take-profit condition holds
\* too), as TAKE_PROFIT when only the take-profit condition holds, and leaves
\* it untouched in the open set when neither holds and its lifetime is not over.
C4_ClosureRule ==
  Priced =>
    /\ StopHit => ClosedAs("STOP_LOSS")
    /\ (~StopHit /\ TargetHit) => ClosedAs("TAKE_PROFIT")
    /\ (~StopHit /\ ~TargetHit /\ ~Outlived) =>
         /\ IterSignal \in Elems(active_signals)
         /\ IterSignal.status = "ACTIVE" => Current(IterSignal.signal_id).status = "ACTIVE"

\* C4 witness: both conditions held at once and the stop-loss won
C4_Witness == Priced /\ StopHit /\ TargetHit /\ ClosedAs("STOP_LOSS")

\* C5 as stated: an ACTIVE signal visited by a pass with no price trigger and
\* an age above MAX_SIGNAL_LIFETIME_HOURS is closed as EXPIRED by that pass.
C5_ExpiryWithoutPrice ==
  (/\ iter # None /\ IterSignal.status = "ACTIVE" /\ Outlived
   /\ (~Priced \/ (~StopHit /\ ~TargetHit))) =>
     Current(IterSignal.signal_id).status = "EXPIRED"

\* C5 amended: an ACTIVE signal whose price was fetched, hit neither level, and
\* whose age exceeds MAX_SIGNAL_LIFETIME_HOURS is closed as EXPIRED by the pass;
\* when a level is hit on an outlived signal the price trigger decides the
\* status; an outlived signal whose price is unavailable stays as it was.
C5_Expiry ==
  /\ (Priced /\ IterSignal.status = "ACTIVE" /\ Outlived) =>
       /\ (~StopHit /\ ~TargetHit) => ClosedAs("EXPIRED")
       /\ StopHit => ClosedAs("STOP_LOSS")
       /\ (~StopHit /\ TargetHit) => ClosedAs("TAKE_PROFIT")
  /\ (iter # None /\ ~Priced /\ IterSignal.status = "ACTIVE") =>
       Current(IterSignal.signal_id) = IterSignal

\* C5 witness: an outlived ACTIVE signal with no level hit was closed as EXPIRED
C5_Witness ==
  /\ Priced /\ IterSignal.status = "ACTIVE" /\ Outlived
  /\ ~StopHit /\ ~TargetHit /\ ClosedAs("EXPIRED")

\* C6: an iteration whose price fetch returned nothing changes neither the
\* open set, the performance log, the files nor the list of closed signals; the
\* pass goes on to the remaining entries; every pass visits every signal of the
\* open set, so the skipped signal is visited again by the next pass.
C6_SkipUnavailable ==
  [][/\ (pc = "monitoring" /\ iter' # None /\ NoPrice(iter'[1].current_price)) =>
          /\ active_signals' = active_signals
          /\ performance' = performance
          /\ file_active' = file_active
          /\ file_perf' = file_perf
          /\ closed_signals' = closed_signals
          /\ iter'[1].signal \in Elems(active_signals')
          /\ (Tail(todo) # <<>> => pc' = "monitoring")
     /\ pc = "monitoring" =>
          /\ iter' # None /\ iter'[1].signal_id = Head(todo)
          /\ todo' = Tail(todo)
     /\ (pc = "monitor" /\ active_signals # <<>>) =>
          /\ todo' = Ids(active_signals)
          /\ pc' = "monitoring"]_vars

\* C6 witness: a signal was skipped for lack of a price while other signals
\* of the same pass were still to be visited
C6_Witness ==
  /\ iter # None /\ NoPrice(iter[1].current_price)
  /\ todo # <<>>
  /\ pc = "monitoring"

\* C7: every created signal has its levels strictly around the entry price:
\* BUY stop_loss < price < take_profit, SELL take_profit < price < stop_loss.
C7_LevelsAroundEntry ==
  \A a \in Elems(active_signals) :
    /\ a.type = "BUY" => (a.stop_loss < a.price /\ a.price < a.take_profit)
    /\ a.type = "SELL" => (a.take_profit < a.price /\ a.price < a.stop_loss)

\* C8: every created signal has a confidence of at least MIN_CONFIDENCE, never
\* negative, and a window whose larger score is below MIN_CONFIDENCE creates
\* no signal.
C8_MinConfidence ==
  /\ \A a \in Elems(active_signals) :
       a.confidence >= MIN_CONFIDENCE /\ a.confidence >= 0
  /\ (pc = "analyzed" /\ Max(Scores(snap).buy, Scores(snap).sell) < MIN_CONFIDENCE) =>
       active_signals = <<>>

\* C8 witness: a signal was created with a confidence of exactly MIN_CONFIDENCE
C8_Witness ==
  /\ pc = "analyzed"
  /\ \E a \in Elems(active_signals) : a.confidence = MIN_CONFIDENCE

\* C9: the confidence of every created signal lies in [0, 1].
C9_ConfidenceAtMostOne ==
  \A a \in Elems(active_signals) : 0 <= a.confidence /\ a.confidence <= 1000

\* C10 as stated: two signals created for the same symbol and direction have
\* creation times more than SIGNAL_COOLDOWN_MINUTES apart.
C10_CreationSpacing ==
  \A a, b \in Held :
    (a.signal_id # b.signal_id /\ a.symbol = b.symbol /\ a.type = b.type) =>
       Abs(a.created_at - b.created_at) > SIGNAL_COOLDOWN_MINUTES * 60

\* C10 amended: every signal analyze_symbol creates passed the cooldown gate
\* in the same call, which stamped its key no later than the creation time,
\* and two passes of the gate for one symbol and direction are more than
\* SIGNAL_COOLDOWN_MINUTES apart.
C10_GateSpacing ==
  [][/\ \A k \in DOMAIN last_signals :
          (k \in DOMAIN last_signals' /\ last_signals'[k] # last_signals[k]) =>
             last_signals'[k] - last_signals[k] > SIGNAL_COOLDOWN_MINUTES * 60
     /\ \A a \in Elems(active_signals') :
          a.signal_id \notin IdSet(active_signals) \cup IdSet(performance) =>
            LET k == <<a.symbol, a.type>>
            IN  /\ k \in DOMAIN last_signals'
                /\ last_signals'[k] <= a.created_at
                /\ k \in DOMAIN last_signals => last_signals'[k] # last_signals[k]]_vars

\* C10 witness: two signals of one symbol and direction exist
C10_Witness ==
  \E a, b \in Held :
    a.signal_id # b.signal_id /\ a.symbol = b.symbol /\ a.type = b.type

\* the step is a call of validate_signal
GateCalled == ret' # None /\ ret'[1].op = "validate_signal" /\ now' = now /\ ret'[1].t = now

\* C11: a call for a key returns true when the key was never passed, false
\* while the time since the last call that returned true for that key does
\* not exceed SIGNAL_COOLDOWN_MINUTES, true once it does; a call that returns
\* true records its own time for the key and nothing else, and a call that
\* returns false changes nothing (so only passing calls restart the cooldown
\* and other keys are never affected).
C11_GateVerdicts ==
  [][GateCalled =>
       LET c == ret'[1]
           key == <<c.symbol, c.type>>
       IN  /\ c.value = (\/ key \notin DOMAIN last_signals
                         \/ c.t - last_signals[key] > SIGNAL_COOLDOWN_MINUTES * 60)
           /\ c.value =>
                /\ DOMAIN last_signals' = DOMAIN last_signals \cup {key}
                /\ last_signals'[key] = c.t
                /\ \A k \in DOMAIN last_signals \ {key} :
                     last_signals'[k] = last_signals[k]
           /\ ~c.value => last_signals' = last_signals]_vars

\* C11 witness: a key passed again, its previous pass being more than the
\* cooldown back, while another key holds a later stamp
C11_Witness ==
  /\ ret # None /\ ret[1].op = "validate_signal"
  /\ ret[1].value /\ ret[1].last # None
  /\ \E k \in DOMAIN last_signals :
       k # <<ret[1].symbol, ret[1].type>> /\ last_signals[k] > ret[1].last[1]

\* the decision the claim prescribes for accumulated scores b (buy), sl (sell)
ClaimedDecision(b, sl) ==
  IF Max(b, sl) < MIN_CONFIDENCE \/ b = sl THEN "HOLD"
  ELSE IF b > sl THEN "BUY" ELSE "SELL"

\* C12: on every pair of accumulated scores the decision is HOLD when the
\* larger score is below MIN_CONFIDENCE or the scores are equal, else BUY with
\* confidence buyScore or SELL with confidence sellScore, whichever is larger;
\* analyze_symbol gets protective levels, and creates the signal that carries
\* them, exactly when the decision is not HOLD.
C12_Decision ==
  /\ pc = "decided" =>
       LET d == ret[1].value
       IN  /\ d.type = ClaimedDecision(snap.buy, snap.sell)
           /\ d.type = "BUY" => d.confidence = snap.buy
           /\ d.type = "SELL" => d.confidence = snap.sell
  /\ pc = "analyzed" =>
       LET sc == Scores(snap)
           c == ret[1]
           decision == c.result[1].type
       IN  /\ decision = ClaimedDecision(sc.buy, sc.sell)
           /\ c.result[1].levels <=> (decision # "HOLD")
           /\ (c.value # None) <=> (decision # "HOLD")
           /\ c.value # None =>
                /\ c.value[1].type = decision
                /\ c.value[1].confidence = (IF decision = "BUY" THEN sc.buy ELSE sc.sell)
                /\ c.value[1].stop_loss = _calculate_stops(snap, decision).stop_loss
                /\ c.value[1].take_profit = _calculate_stops(snap, decision).take_profit

\* C12 witness: equal scores at or above MIN_CONFIDENCE were decided HOLD
C12_Witness ==
  /\ pc = "decided"
  /\ snap.buy = snap.sell /\ snap.buy >= MIN_CONFIDENCE
  /\ ret[1].value.type = "HOLD"

\* the scores of the drawn window after the trend, momentum, band and VWAP
\* components, and after the volume component that follows them
BeforeVolume ==
  VwapStep(BollingerStep(RsiStep(EmaStep(Score(0, 0), snap), snap), snap), snap)

AfterVolume == VolumeStep(BeforeVolume, snap)

\* C13: the volume component adds the volume weight to the side strictly
\* ahead after the first four components when volume_ratio exceeds
\* MIN_VOLUME_RATIO, adds nothing on a tie or when the ratio does not exceed it,
\* and leaves the same side ahead (or the tie) that it found.
C13_VolumeAmplifies ==
  pc = "analyzed" =>
    LET b == BeforeVolume
        a == AfterVolume
        high == snap.volume_ratio > MIN_VOLUME_RATIO
    IN  /\ (high /\ b.buy > b.sell) => a = Score(b.buy + WEIGHTS.volume, b.sell)
        /\ (high /\ b.sell > b.buy) => a = Score(b.buy, b.sell + WEIGHTS.volume)
        /\ (~high \/ b.buy = b.sell) => a = b
        /\ (a.buy > a.sell) <=> (b.buy > b.sell)
        /\ (a.sell > a.buy) <=> (b.sell > b.buy)
        /\ Scores(snap) = PriceActionStep(a, snap)

\* C13 witness: high volume met two sides tied above zero and added nothing
C13_Witness ==
  /\ pc = "analyzed"
  /\ snap.volume_ratio > MIN_VOLUME_RATIO
  /\ BeforeVolume.buy = BeforeVolume.sell /\ BeforeVolume.buy > 0
  /\ AfterVolume = BeforeVolume

\* the frame of the call that ran last and the result of analyze on it
LastFrame == ret[1].frame[1]

LastResult == ret[1].result[1]

\* no signal came of the first call of a fresh service
NothingCreated ==
  /\ ret[1].value = None
  /\ active_signals = <<>> /\ file_active = <<>> /\ performance = <<>>

\* C17: on a frame of fewer than 50 candles analyze returns HOLD with
\* confidence 0.0 and no protective levels, whatever the candles would score,
\* no signal is created and the cooldown map stays empty.
C17_ShortWindow ==
  (pc = "analyzed" /\ LastFrame.candles < 50) =>
    /\ LastResult = [type |-> "HOLD", confidence |-> 0, levels |-> FALSE]
    /\ NothingCreated
    /\ last_signals = <<>>

\* C17 witness: 49 sound candles that score BUY above the minimum gave HOLD 0.0
C17_Witness ==
  /\ pc = "analyzed" /\ LastFrame.candles = 49
  /\ LastFrame.missing = {} /\ LastFrame.nan = {}
  /\ Scores(snap).buy >= MIN_CONFIDENCE /\ Scores(snap).buy > Scores(snap).sell
  /\ LastResult.type = "HOLD" /\ LastResult.confidence = 0

\* C18: on a frame of at least 50 candles whose latest row lacks an indicator
\* column or holds a NaN indicator after calculate_all, analyze returns HOLD
\* (it does not raise) and no signal is created.
C18_QualityGate ==
  (/\ pc = "analyzed" /\ LastFrame.candles >= 50
   /\ (LastFrame.missing # {} \/ LastFrame.nan # {})) =>
    /\ LastResult.type = "HOLD"
    /\ NothingCreated

\* the step is a call of analyze_symbol / an iteration of the monitoring loop
AnalyzeCalled == pc = "analyze" /\ ret' # None /\ ret'[1].op = "analyze_symbol"

MonitorIterated == pc = "monitoring" /\ iter' # None

\* C14: a save that raises during creation leaves the new signal out of the
\* open set, and a save that raises during closure leaves the signal ACTIVE
\* and the performance log as it was (the step is not taken as done).
C14_FailedSaveUndone ==
  [][/\ (AnalyzeCalled /\ ret'[1].save_raised) =>
          active_signals' = active_signals
     /\ (MonitorIterated /\ iter'[1].raised) =>
          /\ performance' = performance
          /\ active_signals' = active_signals]_vars


\* the call of analyze_symbol failed: no candles, an exception in the
\* strategy, or a save that raised
AnalysisFailed ==
  \/ ret'[1].frame = None
  \/ ret'[1].result[1].type = "RAISED"
  \/ ret'[1].save_raised

\* C15: a failed analyze_symbol returns no signal and run goes on to the next
\* symbol (to the monitoring pass after the last one); an iteration of the
\* monitoring loop that raised is followed by the next open signal of the
\* snapshot, and by the normal return of the pass after the last one.
C15_FailureIsolated ==
  [][/\ (AnalyzeCalled /\ AnalysisFailed) =>
          /\ ret'[1].value = None
          /\ IF idx < NumSymbols
             THEN pc' = "analyze" /\ idx' = idx + 1
             ELSE pc' = "monitor"
     /\ (MonitorIterated /\ iter'[1].raised) =>
          /\ todo' = Tail(todo)
          /\ pc' = IF todo' # <<>> THEN "monitoring"
                   ELSE IF closed_signals' # <<>> THEN "notify" ELSE "sleep"]_vars

\* C15 witness: the closure of the first of two open signals raised and the
\* pass is about to evaluate the second
C15_Witness ==
  /\ pc = "monitoring" /\ iter # None /\ iter[1].raised
  /\ todo # <<>> /\ Head(todo) # iter[1].signal_id

\* the strategy was asked and answered HOLD / the cooldown gate rejected
ReturnedHold == ret'[1].result # None /\ ret'[1].result[1].type = "HOLD"

GateRejected == ret'[1].gate = "REJECT"

\* C16: a call of analyze_symbol in which the strategy returns HOLD or the
\* gate rejects returns no signal and changes neither the open set, the
\* performance log nor the two files; on HOLD the gate is not consulted and
\* the cooldown map is unchanged.
C16_NoSignalNoEffect ==
  [][(AnalyzeCalled /\ (ReturnedHold \/ GateRejected)) =>
       /\ ret'[1].value = None
       /\ UNCHANGED <<active_signals, performance, file_active, file_perf>>
       /\ ReturnedHold => (ret'[1].gate = "NONE" /\ last_signals' = last_signals)]_vars

\* C16 witness: with one signal open and stamped, a later call was rejected by
\* the gate (HOLD calls precede it in every behaviour)
C16_Witness ==
  /\ ret # None /\ ret[1].op = "analyze_symbol" /\ ret[1].gate = "REJECT"
  /\ active_signals # <<>> /\ last_signals # <<>>

\* the gain of a closed signal in its own direction, as a fraction of the
\* entry price: numerator over x.price
Gain(x) ==
  IF x.type = "BUY" THEN x.close_price[1] - x.price ELSE x.price - x.close_price[1]

\* the same signal taken in the other direction
Flipped(x) == [x EXCEPT !.type = IF x.type = "BUY" THEN "SELL" ELSE "BUY"]

\* C19: every closed signal carries pnl_percent = gain / entry * 100 rounded
\* to 2 decimals (the hundredth nearest to it), the gain being close - entry
\* for BUY and entry - close for SELL; entry 100.00 closed at 105.00 gives
\* +5.00 for BUY and -5.00 for SELL, closed at 95.00 it gives +5.00 for SELL
\* and -5.00 for BUY; the opposite direction gives the negated value.
C19_ProfitFormula ==
  \A x \in Elems(performance) :
    LET pnl == x.pnl_percent[1]
    IN  /\ 2 * Abs(pnl * x.price - 10000 * Gain(x)) <= x.price
        /\ (x.price = 50000 /\ x.close_price[1] = 52500) =>
             pnl = IF x.type = "BUY" THEN 500 ELSE -500
        /\ (x.price = 50000 /\ x.close_price[1] = 47500) =>
             pnl = IF x.type = "SELL" THEN 500 ELSE -500
        /\ ClosedRecord(Flipped(x), x.close_price[1], x.status,
                        x.close_time[1]).pnl_percent[1] = -pnl

\* C19 witness: a SELL entered at 100.00 and closed at 95.00 is logged with
\* +5.00, and the same signal taken as a BUY would carry -5.00
C19_Witness ==
  \E x \in Elems(performance) :
    /\ x.type = "SELL" /\ x.price = 50000 /\ x.close_price = Some(47500)
    /\ x.pnl_percent = Some(500)
    /\ ClosedRecord(Flipped(x), 47500, x.status, x.close_time[1]).pnl_percent = Some(-500)

\* the step is a call of get_performance_stats
StatsCalled ==
  ret' # None /\ ret'[1].op = "get_performance_stats" /\ ret'[1].t = now

\* the entries of the performance log closed less than days days ago
Window(days) ==
  {i \in 1..Len(performance) : now - performance[i].close_time[1] < days * 86400}

Pnl(i) == performance[i].pnl_percent[1]

\* the sum of pnl_percent over a set of entries
RECURSIVE SumOver(_)
SumOver(W) ==
  IF W = {} THEN 0 ELSE LET i == CHOOSE j \in W : TRUE IN Pnl(i) + SumOver(W \ {i})

\* C20: get_performance_stats(days) returns None exactly when no entry of the
\* log was closed inside the trailing window; otherwise winners counts the
\* entries of the window with pnl > 0, losers those with pnl <= 0, their sum
\* is the total, win_rate = winners / total, total_pnl is the sum over the
\* window, profit_factor = winning pnl / |losing pnl|, and 0 when the losing
\* pnl sums to nothing; the call changes neither the log, the open set, the
\* files nor the cooldown map.
C20_Stats ==
  [][StatsCalled =>
       LET W == Window(ret'[1].days)
           Wins == {i \in W : Pnl(i) > 0}
           Losses == {i \in W : Pnl(i) <= 0}
           v == ret'[1].value
       IN  /\ (v = None) <=> (W = {})
           /\ v # None =>
                /\ v[1].total_signals = Cardinality(W)
                /\ v[1].winners = Cardinality(Wins)
                /\ v[1].losers = Cardinality(Losses)
                /\ v[1].winners + v[1].losers = v[1].total_signals
                /\ v[1].win_rate = Ratio(Cardinality(Wins), Cardinality(W))
                /\ v[1].total_pnl = SumOver(W)
                /\ v[1].profit_factor =
                     IF SumOver(Losses) # 0
                     THEN Ratio(SumOver(Wins), Abs(SumOver(Losses)))
                     ELSE Ratio(0, 1)
           /\ UNCHANGED <<performance, active_signals, file_perf, file_active,
                          last_signals>>]_vars

\* C20 witness: statistics over a window holding one winner and one loser
C20_Witness ==
  /\ ret # None /\ ret[1].op = "get_performance_stats" /\ ret[1].value # None
  /\ ret[1].value[1].winners = 1 /\ ret[1].value[1].losers = 1
  /\ ret[1].value[1].profit_factor.num > 0

\* run goes on from SYMBOLS[idx] to the next symbol, or to the monitoring pass
\* after the last one
SymbolDone ==
  IF idx < NumSymbols
  THEN pc' = "analyze" /\ idx' = idx + 1
  ELSE pc' = "monitor" /\ idx' = 1

\* C21: in a cycle run analyses SYMBOLS[1], SYMBOLS[2], ... in this order, one
\* call each (a signal that came back is distributed before the next symbol),
\* then runs one monitoring pass that visits every signal open at its start
\* (those created in this cycle included), one per iteration, then sends the
\* closure notifications, then sleeps at least ANALYSIS_INTERVAL and starts
\* over with SYMBOLS[1]; this holds whatever the sends to the subscriber did.
C21_CycleOrder ==
  [][/\ pc = "analyze" =>
          /\ AnalyzeCalled /\ ret'[1].symbol = SYMBOLS[idx]
          /\ IF ret'[1].value # None
             THEN pc' = "distribute" /\ idx' = idx
             ELSE SymbolDone
          /\ cycles' = cycles
     /\ pc = "distribute" =>
          /\ Len(outbox') = Len(outbox) + 1
          /\ SymbolDone
          /\ cycles' = cycles
     /\ pc = "monitor" =>
          /\ todo' = Ids(active_signals) /\ active_signals' = active_signals
          /\ pc' = IF todo' = <<>> THEN "sleep" ELSE "monitoring"
          /\ cycles' = cycles
     /\ pc = "monitoring" =>
          /\ todo = <<iter'[1].signal_id>> \o todo'
          /\ IF todo' # <<>> THEN pc' = "monitoring" ELSE pc' \in {"notify", "sleep"}
          /\ cycles' = cycles
     /\ pc = "notify" =>
          /\ Len(outbox') = Len(outbox) + 1
          /\ pc' \in {"notify", "sleep"}
          /\ UNCHANGED <<cycles, active_signals, todo>>
     /\ pc = "sleep" =>
          /\ pc' = "analyze" /\ idx = 1 /\ idx' = 1
          /\ cycles' = cycles + 1 /\ now' >= now + ANALYSIS_INTERVAL]_vars

\* C21 witness: the delivery of a signal of the first symbol failed, the
\* last symbol was analysed all the same, and the monitoring pass of the
\* same cycle is about to evaluate that signal
C21_Witness ==
  /\ pc = "monitoring" /\ iter = None /\ todo # <<>>
  /\ outbox # <<>> /\ outbox[1].kind = "signal" /\ outbox[1].successful = 0
  /\ outbox[1].signal_id = Head(todo)
  /\ Lookup(active_signals, Head(todo)).symbol = SYMBOLS[1]
  /\ Lookup(active_signals, Head(todo)).created_at = now

\* C22: startup aborts on every weight set whose sum differs from 1.0 by more
\* than 0.01 and goes on with every set whose sum is within 0.01 of 1.0.
C22_WeightTolerance ==
  pc # "startup" =>
    LET total == SumWeights(snap, DOMAIN snap)
    IN  /\ Abs(total - 1000) > 10 => pc = "exit"
        /\ Abs(total - 1000) <= 10 => pc = "analyze"

\* C26: a call of save that raises leaves the path loading what it loaded
\* before the call, and a call that returns leaves it loading the data saved.
C26_SaveAllOrNothing ==
  (ret # None /\ ret[1].op = "save") =>
    /\ ret[1].raised => ret[1].after = ret[1].before
    /\ ~ret[1].raised => ret[1].after = ret[1].data


\* the signals run handed to distribute_signal so far
Distributed == {outbox[i].signal_id : i \in {j \in 1..Len(outbox) : outbox[j].kind = "signal"}}

\* the signal analyze_symbol returned to run and run is about to distribute
Returned == IF run.signal = None THEN {} ELSE {run.signal[1].signal_id}

\* C28: every signal in the open set, and every signal closed from it, was
\* returned by analyze_symbol to run and (once run went on to the next symbol)
\* handed to distribute_signal.
C28_TrackedWasEmitted ==
  /\ IdSet(active_signals) \subseteq Distributed \cup Returned
  /\ IdSet(performance) \subseteq Distributed


\* the closure notifications sent for the signal with this id
Updates(id) == {i \in 1..Len(outbox) : outbox[i].kind = "update" /\ outbox[i].signal_id = id}

\* C30: once a monitoring pass is over and run has gone through the list it
\* returned, every signal it closed has exactly one closure notification, and
\* the notification announces the take-profit title for TAKE_PROFIT, the
\* stop-loss title for STOP_LOSS and neither of the two for EXPIRED.
C30_ClosureAnnounced ==
  pc \notin {"monitoring", "notify"} =>
    \A i \in 1..Len(performance) :
      LET c == performance[i]
      IN  /\ Cardinality(Updates(c.signal_id)) = 1
          /\ \A u \in Updates(c.signal_id) :
               /\ c.status = "TAKE_PROFIT" => outbox[u].message.title = "OBJETIVO ALCANZADO"
               /\ c.status = "STOP_LOSS" => outbox[u].message.title = "STOP LOSS ACTIVADO"
               /\ c.status = "EXPIRED" =>
                    outbox[u].message.title \notin {"OBJETIVO ALCANZADO", "STOP LOSS ACTIVADO"}


\* C29: every entry of the performance log closed as TAKE_PROFIT has
\* pnl_percent >= 0 and every entry closed as STOP_LOSS has pnl_percent <= 0,
\* whatever its direction.
C29_OutcomeSign ==
  \A i \in 1..Len(performance) :
    /\ performance[i].status = "TAKE_PROFIT" => performance[i].pnl_percent[1] >= 0
    /\ performance[i].status = "STOP_LOSS" => performance[i].pnl_percent[1] <= 0

\* C29 witness: the log holds a SELL closed at its target (97.00 after an
\* entry at 100.00) with a gain
C29_Witness ==
  \E i \in 1..Len(performance) :
    /\ performance[i].type = "SELL" /\ performance[i].status = "TAKE_PROFIT"
    /\ performance[i].close_price[1] < performance[i].price
    /\ performance[i].pnl_percent[1] > 0


\* C25: the signal_id of a created signal is its symbol with the second of
\* its creation, it differs from the signal_id of every signal created
\* before, and storing the signal adds an entry to the open set without
\* replacing one.  (A call of analyze_symbol created a signal exactly when
\* the cooldown gate recorded a new emission.)
C25_FreshIdentity ==
  [][(pc = "analyze" /\ last_signals' # last_signals) =>
       LET signal == active_signals'[Len(active_signals')]
       IN  /\ signal.signal_id = <<SYMBOLS[idx], now'>>
           /\ signal.signal_id \notin Created
           /\ active_signals' = Append(active_signals, signal)]_vars

\* C25 witness: a second signal of a symbol has just been stored while the
\* first one of the same symbol is still open
C25_Witness ==
  /\ Len(active_signals) = 2
  /\ active_signals[1].symbol = active_signals[2].symbol
  /\ active_signals[1].signal_id # active_signals[2].signal_id
  /\ active_signals[2].created_at = now
  /\ active_signals[1].status = "ACTIVE"


\* the open signals of a symbol
OpenOf(symbol) == {i \in 1..Len(active_signals) : active_signals[i].symbol = symbol}

\* C24: the open set never holds more than MAX_ACTIVE_SIGNALS signals, nor
\* more than MAX_SIGNALS_PER_SYMBOL signals of one symbol.
C24_OpenLimits ==
  /\ Len(active_signals) <= MAX_ACTIVE_SIGNALS
  /\ \A i \in 1..NumSymbols : Cardinality(OpenOf(SYMBOLS[i])) <= MAX_SIGNALS_PER_SYMBOL


\* C23: when the process stopped during a closure and started again from the
\* files, every signal that was open and whose closure is not in the
\* performance log is in the reloaded open set, and from then on no signal
\* has two entries in the performance log.
C23_RestartSafe ==
  /\ (ret # None /\ ret[1].op = "restart") =>
        \A id \in ret[1].open_before :
          id \in IdSet(active_signals) \cup IdSet(performance)
  /\ \A i, j \in 1..Len(performance) :
       performance[i].signal_id = performance[j].signal_id => i = j


\* how many times _close_signal has appended this signal to the performance
\* list
Closures(signal_id) ==
  Cardinality({i \in 1..Len(performance) : performance[i].signal_id = signal_id})

\* C27: while the loop keeps running and the price is available to the passes
\* made after a signal has outlived MAX_SIGNAL_LIFETIME_HOURS, the signal is
\* closed and removed from the open set.  Over a run of LiveCycles cycles: no
\* signal is still in the open set when every pass the run had time for after
\* the first cycle has obtained its price and closed it.
C27_EventuallyRemoved ==
  \A k \in 1..Len(active_signals) :
    Closures(active_signals[k].signal_id) < LiveCycles

====
